---- MODULE Spec2Model ----
(***************************************************************************)
(* Worktree orchestration of snowtree: WorktreeManager.createWorktree and  *)
(* WorktreeManager.removeWorktreePath running as asynchronous calls on an  *)
(* event loop, against one git repository, under the named locks of        *)
(* withLock.  Every await of the source is one step of a call.             *)
(***************************************************************************)
EXTENDS Integers, Sequences, FiniteSets, TLC

\* ----------------------------------------------------------------- bounds
\* number of asynchronous calls issued in one run
MaxCalls == 2
\* number of commits that can exist (local commits and pushes to a remote)
MaxCommits == 2
\* number of git invocations that fail for a reason outside the repository
\* state (a timeout, an unreachable remote)
MaxFaults == 1

Calls == 1..MaxCalls
\* commit identifiers, as git prints them; the n-th commit made is Commit(n)
CommitNames ==
    <<"c1", "c2", "c3", "c4", "c5", "c6", "c7", "c8", "c9", "c10", "c11", "c12">>
Commit(n) == CommitNames[n]
\* a ref that does not exist has no commit
NoCommit == "<no commit>"

\* ------------------------------------------------------- values and names
\* an optional argument that was not passed (undefined)
NoArg == "<undefined>"
\* a nullable local that holds null / undefined
Null == "<null>"

ProjectPath == <<"/tmp", "project">>

Remotes == {"origin", "upstream"}
RemoteBranches == {"main", "master", "dev"}
LocalBranches == {"main", "master", "dev", "n1", "n2", "b1"}
\* what rev-parse --abbrev-ref HEAD prints on a detached HEAD
DetachedName == "HEAD"

\* ------------------------------------------------------------ remote URLs
\* A URL is a sequence of tokens; the regular expressions of
\* parseGitHubOwnerRepo are applied token by token.
SP == " "
NL == "\n"
Whitespace == {SP, NL}
UrlForkSsh == <<"git@", "github.com", ":", "forkOwner", "/", "repo", ".git">>
UrlRealSsh == <<"git@", "github.com", ":", "realOwner", "/", "repo", ".git">>
UrlRealHttps == <<"https://", "github.com", "/", "realOwner", "/", "repo">>
UrlOtherRepo == <<"git@", "github.com", ":", "realOwner", "/", "other", ".git">>
UrlLocalDir == <<"/", "srv", "/", "repo", ".git">>
UrlBlank == <<SP>>
\* a remote that is not configured has no URL; also the null of getRemoteUrl
NoUrl == <<>>

\* String.prototype.trim on a token sequence
RECURSIVE TrimStart(_)
TrimStart(s) == IF s # <<>> /\ Head(s) \in Whitespace THEN TrimStart(Tail(s)) ELSE s

RECURSIVE TrimEnd(_)
TrimEnd(s) ==
    IF s # <<>> /\ s[Len(s)] \in Whitespace THEN TrimEnd(SubSeq(s, 1, Len(s) - 1)) ELSE s

Trim(s) == TrimEnd(TrimStart(s))

\* index of the first "/" of s at or after position i, 0 when there is none
RECURSIVE FirstSlash(_, _)
FirstSlash(s, i) ==
    IF i > Len(s) THEN 0
    ELSE IF s[i] = "/" THEN i
    ELSE FirstSlash(s, i + 1)

\* a regular expression that did not match (match() returned null); a match
\* never has an empty owner
NoMatch == [owner |-> <<>>, repo |-> <<>>]

\* ([^/]+)\/(.+?)(?:\.git)?$ applied to s from position i on
OwnerRepoFrom(s, i) ==
    LET k == FirstSlash(s, i)
        rest == SubSeq(s, k + 1, Len(s))
        repo == IF Len(rest) > 1 /\ rest[Len(rest)] = ".git"
                THEN SubSeq(rest, 1, Len(rest) - 1)
                ELSE rest
    IN  IF k = 0 \/ k = i \/ rest = <<>>
        THEN NoMatch
        ELSE [owner |-> SubSeq(s, i, k - 1), repo |-> repo]

parseGitHubOwnerRepo(remoteUrl) ==
    LET trimmed == Trim(remoteUrl)
        sshMatch ==
            IF Len(trimmed) >= 3 /\ trimmed[1] = "git@"
               /\ trimmed[2] = "github.com" /\ trimmed[3] = ":"
            THEN OwnerRepoFrom(trimmed, 4)
            ELSE NoMatch
        httpsMatch ==
            IF Len(trimmed) >= 3 /\ trimmed[1] \in {"https://", "http://"}
               /\ trimmed[2] = "github.com" /\ trimmed[3] = "/"
            THEN OwnerRepoFrom(trimmed, 4)
            ELSE NoMatch
    IN  IF sshMatch # NoMatch THEN sshMatch
        ELSE IF httpsMatch # NoMatch THEN httpsMatch
        ELSE NoMatch

\* the text of a one-token output; "" for the empty output
EmptyText == ""
Unstripped == "<ref outside the remote>"
Text(s) == IF s = <<>> THEN EmptyText ELSE IF Len(s) = 1 THEN s[1] ELSE Unstripped

\* String.prototype.replace(prefix, '') for a prefix of tokens: the first
\* occurrence is at the start or nowhere in the outputs of the model
ReplacePrefix(s, prefix) ==
    IF Len(s) >= Len(prefix) /\ SubSeq(s, 1, Len(prefix)) = prefix
    THEN SubSeq(s, Len(prefix) + 1, Len(s))
    ELSE s

isForkOfUpstream(originUrl, upstreamUrl) ==
    LET origin == parseGitHubOwnerRepo(originUrl)
        upstream == parseGitHubOwnerRepo(upstreamUrl)
    IN  IF origin = NoMatch \/ upstream = NoMatch THEN FALSE
        ELSE origin.repo = upstream.repo /\ origin.owner # upstream.owner

\* ------------------------------------------------------------------ paths
\* A path is a sequence of tokens, "/" being the separator.
DefaultFolder == <<"worktrees">>
FolderRel == <<"wt">>
FolderAbs == <<"/", "srv", "/", "wt">>
\* worktreeFolder not passed
NoFolder == <<>>

\* path.join(a, b) for the paths of the model
join(a, b) == a \o <<"/">> \o b

Contains(s, t) == \E i \in 1..Len(s) : s[i] = t

\* the key under which getProjectPaths caches the storage directory
ProjectCacheKey(projectPath, worktreeFolder) ==
    <<projectPath, ":",
      IF worktreeFolder # NoFolder THEN worktreeFolder ELSE DefaultFolder>>

\* mutant: an absolute worktreeFolder is joined to the project path too
ComputeBaseDirJoined(projectPath, worktreeFolder) ==
    join(projectPath,
         IF worktreeFolder # NoFolder THEN worktreeFolder ELSE DefaultFolder)

\* the storage directory getProjectPaths computes on a cache miss
ComputeBaseDir(projectPath, worktreeFolder) ==
    LET folderName ==
            IF worktreeFolder # NoFolder THEN worktreeFolder ELSE DefaultFolder
        isAbsolute ==
            /\ worktreeFolder # NoFolder
            /\ (Head(worktreeFolder) = "/" \/ Contains(worktreeFolder, ":"))
    IN  IF isAbsolute THEN folderName ELSE join(projectPath, folderName)

\* ------------------------------------------------------ the git repository
\* git, the remotes and the executor are external collaborators: a command
\* is atomic, and its result is a function of the repository.
VARIABLES
    git,        \* the local repository: refs, HEAD, registered worktrees
    server,     \* the branches of each remote as they are on the remote host
    cfg,        \* the remotes' URLs and remote HEADs (read only)
    nextCommit  \* the next commit identifier

HeadsOf(g, b) == IF b \in DOMAIN g.heads THEN g.heads[b] ELSE NoCommit

RemoteRefOf(g, r, b) ==
    IF r \in Remotes /\ b \in RemoteBranches THEN g.rrefs[r][b] ELSE NoCommit

HeadCommit(g) == IF g.cur = DetachedName THEN g.det ELSE HeadsOf(g, g.cur)

\* the three shapes createWorktree gives to baseRef
RemoteRef(r, b) == <<r, "/", b>>
LocalRef(b) == <<b>>
HeadRef == <<"HEAD">>

\* the commit a ref name resolves to, NoCommit when it does not resolve
Resolve(g, ref) ==
    IF ~g.isRepo THEN NoCommit
    ELSE IF Len(ref) = 3 THEN RemoteRefOf(g, ref[1], ref[3])
    ELSE IF ref = HeadRef THEN HeadCommit(g)
    ELSE HeadsOf(g, ref[1])

IsWorktree(g, path) == \E w \in g.wts : w.path = path

\* stderr texts the callers look for
NotAWorkingTree == "is not a working tree"
OtherError == "fatal"
NoOutput == <<>>

Ok(g, out) == [exitCode |-> 0, stdout |-> out, stderr |-> "", g |-> g]
Failed(g, err) == [exitCode |-> 128, stdout |-> NoOutput, stderr |-> err, g |-> g]

\* What git does for a command on repository g with fresh commit id n. A
\* command is [op, remote, branch, path, ref]; unused fields are empty.
GitCmd(op, remote, branch, path, ref) ==
    [op |-> op, remote |-> remote, branch |-> branch, path |-> path, ref |-> ref]

GitSemantics(cmd, g, srv, n) ==
    CASE cmd.op = "rev-parse --is-inside-work-tree" ->
            IF g.isRepo THEN Ok(g, <<"true", NL>>) ELSE Failed(g, OtherError)
      [] cmd.op = "init" ->
            Ok([g EXCEPT !.isRepo = TRUE], NoOutput)
      [] cmd.op = "worktree remove" ->
            IF ~g.isRepo THEN Failed(g, OtherError)
            ELSE IF ~IsWorktree(g, cmd.path) THEN Failed(g, NotAWorkingTree)
            ELSE Ok([g EXCEPT !.wts = {w \in @ : w.path # cmd.path}], NoOutput)
      [] cmd.op = "rev-parse HEAD" ->
            IF g.isRepo /\ HeadCommit(g) # NoCommit
            THEN Ok(g, <<HeadCommit(g), NL>>) ELSE Failed(g, OtherError)
      [] cmd.op = "add -A" ->
            IF g.isRepo THEN Ok(g, NoOutput) ELSE Failed(g, OtherError)
      [] cmd.op = "commit" ->
            IF ~g.isRepo THEN Failed(g, OtherError)
            ELSE IF g.cur = DetachedName
            THEN Ok([g EXCEPT !.det = Commit(n)], NoOutput)
            ELSE Ok([g EXCEPT !.heads[g.cur] = Commit(n)], NoOutput)
      [] cmd.op = "remote get-url" ->
            IF g.isRepo /\ cfg.url[cmd.remote] # NoUrl
            THEN Ok(g, cfg.url[cmd.remote] \o <<NL>>) ELSE Failed(g, OtherError)
      [] cmd.op = "fetch" ->
            IF g.isRepo /\ cfg.url[cmd.remote] \notin {NoUrl, UrlBlank}
            THEN Ok([g EXCEPT !.rrefs[cmd.remote] = srv[cmd.remote]], NoOutput)
            ELSE Failed(g, OtherError)
      [] cmd.op = "symbolic-ref" ->
            IF g.isRepo /\ cfg.rhead[cmd.remote] # Null
            THEN Ok(g, <<"refs/remotes/", cmd.remote, "/", cfg.rhead[cmd.remote], NL>>)
            ELSE Failed(g, OtherError)
      [] cmd.op = "show-ref refs/remotes" ->
            IF g.isRepo /\ RemoteRefOf(g, cmd.remote, cmd.branch) # NoCommit
            THEN Ok(g, NoOutput) ELSE Failed(g, "")
      [] cmd.op = "rev-parse --abbrev-ref HEAD" ->
            IF g.isRepo /\ HeadCommit(g) # NoCommit
            THEN Ok(g, <<g.cur, NL>>) ELSE Failed(g, OtherError)
      [] cmd.op = "rev-parse --verify" ->
            IF Resolve(g, cmd.ref) # NoCommit
            THEN Ok(g, <<Resolve(g, cmd.ref), NL>>) ELSE Failed(g, OtherError)
      [] cmd.op = "show-ref refs/heads" ->
            IF g.isRepo /\ HeadsOf(g, cmd.branch) # NoCommit
            THEN Ok(g, NoOutput) ELSE Failed(g, "")
      [] cmd.op = "rev-parse" ->
            IF Resolve(g, cmd.ref) # NoCommit
            THEN Ok(g, <<Resolve(g, cmd.ref), NL>>) ELSE Failed(g, OtherError)
      [] cmd.op = "worktree add" ->
            IF /\ g.isRepo
               /\ cmd.branch \in DOMAIN g.heads
               /\ HeadsOf(g, cmd.branch) = NoCommit
               /\ ~IsWorktree(g, cmd.path)
               /\ Resolve(g, cmd.ref) # NoCommit
            THEN Ok([g EXCEPT !.heads[cmd.branch] = Resolve(g, cmd.ref),
                              !.wts = @ \cup {[path |-> cmd.path,
                                               branch |-> cmd.branch,
                                               commit |-> Resolve(g, cmd.ref)]}],
                    NoOutput)
            ELSE Failed(g, OtherError)

\* A command that fails for a reason outside the repository (a timeout, an
\* unreachable remote): non-zero exit, nothing done.
Faulted(g) == [exitCode |-> 124, stdout |-> NoOutput, stderr |-> "timeout", g |-> g]

\* GitExecutor.run: a non-zero exit throws unless throwOnError is false or
\* stderr includes one of treatAsSuccessIfOutputIncludes.
Throws(res, treatAsSuccessIfOutputIncludes, throwOnError) ==
    /\ res.exitCode # 0
    /\ throwOnError
    /\ res.stderr \notin treatAsSuccessIfOutputIncludes

\* ------------------------------------------------------------- the calls
VARIABLES
    pc,            \* per call: the await it is suspended at
    args,          \* per call: the operation and its arguments
    loc,           \* per call: the local variables of createWorktree
    glog,          \* per call: the git invocations made so far, with exit codes
    result,        \* per call: what the returned promise settled with
    lockQueue,     \* withLock: the calls holding or waiting for a lock, in arrival order
    projectsCache, \* WorktreeManager.projectsCache
    faults         \* the number of invocations that failed from outside so far

\* the variables of the WorktreeManager calls
managerVars == <<git, server, cfg, nextCommit, pc, args, loc, glog, result,
                 lockQueue, projectsCache, faults>>

\* ------------------------------------------------------ the file watcher
VARIABLES
    watchedSessions,       \* GitFileWatcher.watchedSessions
    refreshDebounceTimers, \* GitFileWatcher.refreshDebounceTimers
    handles,               \* the open FSWatcher handles, counted per target
    now,                   \* the clock, in ms
    emitted,               \* the needs-refresh emissions of the last call or callback
    throws,                \* the number of subscriber handlers that threw so far
    input,                 \* the last call or callback the watcher ran
    hist                   \* per session: what has happened since it was started

watcherVars == <<watchedSessions, refreshDebounceTimers, handles, now, emitted,
                 throws, input, hist>>

\* ------------------------------------------------- the worktree listings
VARIABLES
    porcelain, \* the lines git worktree list --porcelain prints for the project
    parsed,    \* what listWorktrees returned for them
    dpc,       \* listWorktreesDetailed: the await it is suspended at
    list,      \* listWorktreesDetailed: the result of listWorktrees
    dloc,      \* listWorktreesDetailed: the locals of the current iteration
    detailed,  \* listWorktreesDetailed: the entries pushed so far
    dlog       \* listWorktreesDetailed: the outcome of each step so far

listingVars == <<porcelain, parsed, dpc, list, dloc, detailed, dlog>>

\* ---------------------------------------------- the fork test on its own
VARIABLES
    remoteUrls, \* the two URLs isForkOfUpstream is called with, as described
    forkResult  \* what parseGitHubOwnerRepo and isForkOfUpstream returned for them

forkVars == <<remoteUrls, forkResult>>

\* -------------------------------------------- resolveGitDir on its own
VARIABLES
    dotGitEntry, \* the worktree path resolveGitDir is called with and what is at <worktreePath>/.git
    gitDir       \* what resolveGitDir returned for it

gitDirVars == <<dotGitEntry, gitDir>>

vars == <<managerVars, watcherVars, listingVars, forkVars, gitDirVars>>

\* JavaScript truthiness of an optional string
Truthy(x) == x \notin {NoArg, EmptyText}

NoArgs ==
    [op |-> "none", projectPath |-> <<>>, name |-> NoArg, branch |-> NoArg,
     baseBranch |-> NoArg, worktreeFolder |-> NoFolder, worktreePath |-> <<>>,
     sessionId |-> NoArg]

CreateArgs(name, branch, baseBranch, worktreeFolder) ==
    [op |-> "create", projectPath |-> ProjectPath, name |-> name, branch |-> branch,
     baseBranch |-> baseBranch, worktreeFolder |-> worktreeFolder,
     worktreePath |-> <<>>, sessionId |-> NoArg]

\* removeWorktreePath(projectPath, worktreePath, sessionId)
RemoveArgsWith(worktreePath, sessionId) ==
    [op |-> "remove", projectPath |-> ProjectPath, name |-> NoArg, branch |-> NoArg,
     baseBranch |-> NoArg, worktreeFolder |-> NoFolder, worktreePath |-> worktreePath,
     sessionId |-> sessionId]

RemoveArgs(worktreePath) == RemoveArgsWith(worktreePath, NoArg)

NoLocals ==
    [baseDir |-> <<>>, worktreePath |-> <<>>, branchName |-> NoArg,
     originUrl |-> NoUrl, upstreamUrl |-> NoUrl, baseRemote |-> Null,
     mainBranchName |-> NoArg, candidate |-> 0, actualBaseBranch |-> NoArg,
     baseRef |-> <<>>, baseCommit |-> NoCommit]

NoResult == [kind |-> "pending", error |-> "", value |-> <<>>]

\* the errors a call rejects with
BranchAlreadyExists == "Branch already exists"
GitCommandFailed == "git command failed"
MkdirFailed == "mkdir failed"

\* ------------------------------------------------------------- withLock
\* the lock names of createWorktree and removeWorktreePath
CreateLockKey(projectPath, name) == <<"worktree-create-", projectPath, "-", name>>

RemoveLockKey(worktreePath) == <<"worktree-remove-", worktreePath>>

\* mutant: createWorktree keyed by the branch it creates instead of by name
KeyOfBranch(a) ==
    IF a.op = "create"
    THEN CreateLockKey(a.projectPath, IF Truthy(a.branch) THEN a.branch ELSE a.name)
    ELSE RemoveLockKey(a.worktreePath)

\* mutant: one lock for all the createWorktree calls of a project
KeyOfProject(a) ==
    IF a.op = "create" THEN <<"worktree-create-", a.projectPath>>
    ELSE RemoveLockKey(a.worktreePath)

KeyOf(a) ==
    IF a.op = "create" THEN CreateLockKey(a.projectPath, a.name)
    ELSE RemoveLockKey(a.worktreePath)

\* position of call c in sequence q, 0 when absent
RECURSIVE IndexIn(_, _, _)
IndexIn(q, c, i) ==
    IF i > Len(q) THEN 0 ELSE IF q[i] = c THEN i ELSE IndexIn(q, c, i + 1)

Pos(q, c) == IndexIn(q, c, 1)

\* the named mutex grants a key to the earliest caller still queued for it
MayEnter(q, c) ==
    /\ Pos(q, c) > 0
    /\ \A i \in 1..(Pos(q, c) - 1) : KeyOf(args[q[i]]) # KeyOf(args[c])

\* the release in withLock's finally
Release(q, c) == SelectSeq(q, LAMBDA d : d # c)

Settled(p) == p \in {"returned", "thrown"}

\* ------------------------------------------------------ steps of a call
FaultChoices == IF faults < MaxFaults THEN {FALSE, TRUE} ELSE {FALSE}

\* WorktreeManager.runGit: hand the command to the executor
runGit(cmd, fault) ==
    IF fault THEN Faulted(git) ELSE GitSemantics(cmd, git, server, nextCommit)

ReturnValue(l) ==
    [worktreePath |-> l.worktreePath, baseCommit |-> l.baseCommit,
     baseBranch |-> l.actualBaseBranch, branchName |-> l.branchName]

\* A call resumes after an await: it moves to the next await (newpc) with
\* locals newloc, or settles; release says whether the lock is released when
\* it settles.
ResumeWith(c, newpc, newloc, err, release) ==
    /\ pc' = [pc EXCEPT ![c] = newpc]
    /\ loc' = [loc EXCEPT ![c] = newloc]
    /\ result' = [result EXCEPT ![c] =
            IF newpc = "returned"
            THEN [kind |-> "returned", error |-> "",
                  value |-> IF args[c].op = "create" THEN ReturnValue(newloc) ELSE <<>>]
            ELSE IF newpc = "thrown"
            THEN [kind |-> "thrown", error |-> err, value |-> <<>>]
            ELSE @]
    /\ lockQueue' =
            IF Settled(newpc) /\ release THEN Release(lockQueue, c) ELSE lockQueue
    /\ UNCHANGED <<args, projectsCache, server, cfg>>
    /\ UNCHANGED <<watcherVars, listingVars, forkVars, gitDirVars>>

\* the callback runs inside withLock, whose finally releases the lock however
\* the callback settles
Resume(c, newpc, newloc, err) == ResumeWith(c, newpc, newloc, err, TRUE)

\* the effect of one git invocation on the repository and on the call's log
Ran(c, cmd, res) ==
    /\ git' = res.g
    /\ nextCommit' =
            IF cmd.op = "commit" /\ res.exitCode = 0 THEN nextCommit + 1 ELSE nextCommit
    /\ faults' = IF res.stderr = "timeout" THEN faults + 1 ELSE faults
    /\ glog' = [glog EXCEPT ![c] =
            Append(@, [step |-> pc[c], cmd |-> cmd, exitCode |-> res.exitCode,
                       stderr |-> res.stderr])]

None == ""
NoPath == <<>>
NoRef == <<>>

\* a caller invokes createWorktree or removeWorktreePath: withLock queues it.
\* Calls are numbered in the order they are made.
Invoke(c, a) ==
    /\ pc[c] = "idle"
    /\ \A d \in Calls : d < c => pc[d] # "idle"
    /\ args' = [args EXCEPT ![c] = a]
    /\ pc' = [pc EXCEPT ![c] = "waiting"]
    /\ lockQueue' = Append(lockQueue, c)
    /\ UNCHANGED <<git, server, cfg, nextCommit, loc, glog, result, projectsCache,
                   faults>>
    /\ UNCHANGED <<watcherVars, listingVars, forkVars, gitDirVars>>

\* the callback of c starts, once granted holds; createWorktree reads the
\* storage directory (getProjectPaths) and awaits mkdir
EnterWhen(c, granted) ==
    /\ pc[c] = "waiting"
    /\ granted
    /\ IF args[c].op = "create"
       THEN LET key == ProjectCacheKey(args[c].projectPath, args[c].worktreeFolder)
                hit == \E e \in projectsCache : e.key = key
                baseDir ==
                    IF hit
                    THEN (CHOOSE e \in projectsCache : e.key = key).baseDir
                    ELSE ComputeBaseDir(args[c].projectPath, args[c].worktreeFolder)
            IN  /\ projectsCache' =
                        projectsCache \cup {[key |-> key, baseDir |-> baseDir]}
                /\ loc' = [loc EXCEPT ![c].baseDir = baseDir]
                /\ pc' = [pc EXCEPT ![c] = "mkdir"]
       ELSE /\ pc' = [pc EXCEPT ![c] = "remove"]
            /\ UNCHANGED <<loc, projectsCache>>
    /\ UNCHANGED <<git, server, cfg, nextCommit, args, glog, result, lockQueue,
                   faults>>
    /\ UNCHANGED <<watcherVars, listingVars, forkVars, gitDirVars>>

\* mutant: removeWorktreePath runs its callback without taking the lock
EnterRemoveUnlocked(c) ==
    EnterWhen(c, args[c].op = "remove" \/ MayEnter(lockQueue, c))

\* mutant: createWorktree runs its callback without taking the lock
EnterCreateUnlocked(c) ==
    EnterWhen(c, args[c].op = "create" \/ MayEnter(lockQueue, c))

\* withLock grants the lock and the callback starts
Enter(c) == EnterWhen(c, MayEnter(lockQueue, c))

\* await mkdir(baseDir, {recursive: true}); then worktreePath and branchName
Mkdir(c) ==
    /\ pc[c] = "mkdir"
    /\ \E fault \in FaultChoices :
        /\ faults' = IF fault THEN faults + 1 ELSE faults
        /\ IF fault
           THEN Resume(c, "thrown", loc[c], MkdirFailed)
           ELSE Resume(c, "probe",
                       [loc[c] EXCEPT
                            !.worktreePath = join(loc[c].baseDir, <<args[c].name>>),
                            !.branchName = IF Truthy(args[c].branch)
                                           THEN args[c].branch ELSE args[c].name],
                       "")
    /\ UNCHANGED <<git, nextCommit, glog>>

\* git rev-parse --is-inside-work-tree; on failure git init comes next
Probe(c) ==
    /\ pc[c] = "probe"
    /\ \E fault \in FaultChoices :
        LET cmd == GitCmd("rev-parse --is-inside-work-tree", None, None, NoPath, NoRef)
        IN  \E res \in {runGit(cmd, fault)} :
            /\ Ran(c, cmd, res)
            /\ Resume(c, IF Throws(res, {}, TRUE) THEN "init" ELSE "cleanup", loc[c], "")

GitInit(c) ==
    /\ pc[c] = "init"
    /\ \E fault \in FaultChoices :
        LET cmd == GitCmd("init", None, None, NoPath, NoRef)
        IN  \E res \in {runGit(cmd, fault)} :
            /\ Ran(c, cmd, res)
            /\ IF Throws(res, {}, TRUE)
               THEN Resume(c, "thrown", loc[c], GitCommandFailed)
               ELSE Resume(c, "cleanup", loc[c], "")

\* mutant: a cleanup that fails with another error than "is not a working
\* tree" aborts the call
CleanupAborts(c) ==
    /\ pc[c] = "cleanup"
    /\ \E fault \in FaultChoices :
        LET cmd == GitCmd("worktree remove", None, None, loc[c].worktreePath, NoRef)
        IN  \E res \in {runGit(cmd, fault)} :
            /\ Ran(c, cmd, res)
            /\ IF Throws(res, {NotAWorkingTree}, TRUE)
               THEN Resume(c, "thrown", loc[c], GitCommandFailed)
               ELSE Resume(c, "hasCommits", loc[c], "")

\* best-effort git worktree remove <worktreePath> --force
Cleanup(c) ==
    /\ pc[c] = "cleanup"
    /\ \E fault \in FaultChoices :
        LET cmd == GitCmd("worktree remove", None, None, loc[c].worktreePath, NoRef)
        IN  \E res \in {runGit(cmd, fault)} :
            /\ Ran(c, cmd, res)
            /\ Resume(c, "hasCommits", loc[c], "")

\* git rev-parse HEAD; on failure the initial commit is made
HasCommits(c) ==
    /\ pc[c] = "hasCommits"
    /\ \E fault \in FaultChoices :
        LET cmd == GitCmd("rev-parse HEAD", None, None, NoPath, NoRef)
        IN  \E res \in {runGit(cmd, fault)} :
            /\ Ran(c, cmd, res)
            /\ Resume(c, IF Throws(res, {}, TRUE) THEN "add" ELSE "getOrigin", loc[c], "")

AddAll(c) ==
    /\ pc[c] = "add"
    /\ \E fault \in FaultChoices :
        LET cmd == GitCmd("add -A", None, None, NoPath, NoRef)
        IN  \E res \in {runGit(cmd, fault)} :
            /\ Ran(c, cmd, res)
            /\ Resume(c, "commit", loc[c], "")

\* mutant: a failed initial commit is tolerated like a failed staging
InitialCommitTolerated(c) ==
    /\ pc[c] = "commit"
    /\ \E fault \in FaultChoices :
        LET cmd == GitCmd("commit", None, None, NoPath, NoRef)
        IN  \E res \in {runGit(cmd, fault)} :
            /\ Ran(c, cmd, res)
            /\ Resume(c, "getOrigin", loc[c], "")

\* git commit -m 'Initial commit' --allow-empty, outside any try
InitialCommit(c) ==
    /\ pc[c] = "commit"
    /\ \E fault \in FaultChoices :
        LET cmd == GitCmd("commit", None, None, NoPath, NoRef)
        IN  \E res \in {runGit(cmd, fault)} :
            /\ Ran(c, cmd, res)
            /\ IF Throws(res, {}, TRUE)
               THEN Resume(c, "thrown", loc[c], GitCommandFailed)
               ELSE Resume(c, "getOrigin", loc[c], "")

\* getRemoteUrl: the trimmed stdout, null when the command failed or printed
\* nothing
getRemoteUrl(res) == IF Throws(res, {}, TRUE) THEN NoUrl ELSE Trim(res.stdout)

\* mutant: origin is preferred whenever it is present
ChooseOriginFirst(originUrl, upstreamUrl) ==
    IF originUrl # NoUrl THEN "origin"
    ELSE IF upstreamUrl # NoUrl THEN "upstream"
    ELSE Null

\* the choice of baseRemote from the two looked-up URLs
ChooseBaseRemote(originUrl, upstreamUrl) ==
    LET originExists == originUrl # NoUrl
        upstreamExists == upstreamUrl # NoUrl
    IN  IF originExists /\ upstreamExists /\ isForkOfUpstream(originUrl, upstreamUrl)
        THEN "upstream"
        ELSE IF originExists THEN "origin"
        ELSE IF upstreamExists THEN "upstream"
        ELSE Null

\* mutant: master is tried before main
CandidatesMasterFirst == <<"master", "main">>

\* mutant: the probe of main is tried again when it failed
CandidatesMainAgain == <<"main", "main">>

\* the candidates tried under the remote when it has no symbolic HEAD
Candidates == <<"main", "master">>

\* const actualBaseBranch = mainBranchName; let baseRef = ...; and the await
\* that follows
BaseRefStart(l) ==
    [pc |-> IF l.baseRemote # Null THEN "verifyBase" ELSE "showRefLocal",
     loc |-> [l EXCEPT !.actualBaseBranch = l.mainBranchName,
                       !.baseRef = IF l.baseRemote # Null
                                   THEN RemoteRef(l.baseRemote, l.mainBranchName)
                                   ELSE LocalRef(l.mainBranchName)]]

\* let mainBranchName = baseBranch; and the first await of the resolution
ResolutionStart(l, baseBranch) ==
    LET l1 == [l EXCEPT !.mainBranchName = baseBranch]
    IN  IF Truthy(baseBranch) THEN BaseRefStart(l1)
        ELSE IF l.baseRemote # Null THEN [pc |-> "symbolicRef", loc |-> l1]
        ELSE [pc |-> "abbrevRef", loc |-> l1]

GetOrigin(c) ==
    /\ pc[c] = "getOrigin"
    /\ \E fault \in FaultChoices :
        LET cmd == GitCmd("remote get-url", "origin", None, NoPath, NoRef)
        IN  \E res \in {runGit(cmd, fault)} :
            /\ Ran(c, cmd, res)
            /\ Resume(c, "getUpstream",
                      [loc[c] EXCEPT !.originUrl = getRemoteUrl(res)], "")

GetUpstream(c) ==
    /\ pc[c] = "getUpstream"
    /\ \E fault \in FaultChoices :
        LET cmd == GitCmd("remote get-url", "upstream", None, NoPath, NoRef)
        IN  \E res \in {runGit(cmd, fault)} :
            \E upstreamUrl \in {getRemoteUrl(res)} :
            \E baseRemote \in {ChooseBaseRemote(loc[c].originUrl, upstreamUrl)} :
            \E l \in {[loc[c] EXCEPT !.upstreamUrl = upstreamUrl,
                                     !.baseRemote = baseRemote]} :
            \E start \in {ResolutionStart(l, args[c].baseBranch)} :
            /\ Ran(c, cmd, res)
            /\ IF baseRemote # Null
               THEN Resume(c, "fetch", l, "")
               ELSE Resume(c, start.pc, start.loc, "")

\* mutant: origin is fetched, whichever remote was chosen
FetchOrigin(c) ==
    /\ pc[c] = "fetch"
    /\ \E fault \in FaultChoices :
        LET cmd == GitCmd("fetch", "origin", None, NoPath, NoRef)
        IN  \E res \in {runGit(cmd, fault)} :
            \E start \in {ResolutionStart(loc[c], args[c].baseBranch)} :
            /\ Ran(c, cmd, res)
            /\ IF Throws(res, {}, TRUE)
               THEN Resume(c, "thrown", loc[c], GitCommandFailed)
               ELSE Resume(c, start.pc, start.loc, "")

\* git fetch <baseRemote>
Fetch(c) ==
    /\ pc[c] = "fetch"
    /\ \E fault \in FaultChoices :
        LET cmd == GitCmd("fetch", loc[c].baseRemote, None, NoPath, NoRef)
        IN  \E res \in {runGit(cmd, fault)} :
            \E start \in {ResolutionStart(loc[c], args[c].baseBranch)} :
            /\ Ran(c, cmd, res)
            /\ IF Throws(res, {}, TRUE)
               THEN Resume(c, "thrown", loc[c], GitCommandFailed)
               ELSE Resume(c, start.pc, start.loc, "")

\* git symbolic-ref refs/remotes/<baseRemote>/HEAD
SymbolicRef(c) ==
    /\ pc[c] = "symbolicRef"
    /\ \E fault \in FaultChoices :
        LET cmd == GitCmd("symbolic-ref", loc[c].baseRemote, None, NoPath, NoRef)
        IN  \E res \in {runGit(cmd, fault)} :
            \E remoteHead \in {Trim(res.stdout)} :
            \E stripped \in
                {Text(Trim(ReplacePrefix(remoteHead,
                                         <<"refs/remotes/", loc[c].baseRemote, "/">>)))} :
            \E l \in {IF Throws(res, {}, TRUE) THEN loc[c]
                      ELSE [loc[c] EXCEPT !.mainBranchName = stripped]} :
            \E start \in {BaseRefStart(l)} :
            /\ Ran(c, cmd, res)
            /\ IF Truthy(l.mainBranchName)
               THEN Resume(c, start.pc, start.loc, "")
               ELSE Resume(c, "candidate", [l EXCEPT !.candidate = 1], "")

\* git show-ref --verify --quiet refs/remotes/<baseRemote>/<candidate>
Candidate(c) ==
    /\ pc[c] = "candidate"
    /\ \E fault \in FaultChoices :
        LET candidate == Candidates[loc[c].candidate]
            cmd == GitCmd("show-ref refs/remotes", loc[c].baseRemote, candidate,
                          NoPath, NoRef)
        IN  \E res \in {runGit(cmd, fault)} :
            \E start \in {BaseRefStart([loc[c] EXCEPT !.mainBranchName = candidate])} :
            /\ Ran(c, cmd, res)
            /\ IF ~Throws(res, {}, TRUE)
               THEN Resume(c, start.pc, start.loc, "")
               ELSE IF loc[c].candidate < Len(Candidates)
               THEN Resume(c, "candidate", [loc[c] EXCEPT !.candidate = @ + 1], "")
               ELSE Resume(c, "abbrevRef", loc[c], "")

\* git rev-parse --abbrev-ref HEAD, "main" when it fails
AbbrevRef(c) ==
    /\ pc[c] = "abbrevRef"
    /\ \E fault \in FaultChoices :
        LET cmd == GitCmd("rev-parse --abbrev-ref HEAD", None, None, NoPath, NoRef)
        IN  \E res \in {runGit(cmd, fault)} :
            \E start \in
                {BaseRefStart([loc[c] EXCEPT !.mainBranchName =
                                    IF Throws(res, {}, TRUE) THEN "main"
                                    ELSE Text(Trim(res.stdout))])} :
            /\ Ran(c, cmd, res)
            /\ Resume(c, start.pc, start.loc, "")

\* mutant: a base ref that does not resolve is tolerated
VerifyBaseTolerated(c) ==
    /\ pc[c] = "verifyBase"
    /\ \E fault \in FaultChoices :
        LET cmd == GitCmd("rev-parse --verify", None, None, NoPath, loc[c].baseRef)
        IN  \E res \in {runGit(cmd, fault)} :
            /\ Ran(c, cmd, res)
            /\ Resume(c, "branchCheck", loc[c], "")

\* git rev-parse --verify <baseRef>^{commit}, when a remote was chosen
VerifyBase(c) ==
    /\ pc[c] = "verifyBase"
    /\ \E fault \in FaultChoices :
        LET cmd == GitCmd("rev-parse --verify", None, None, NoPath, loc[c].baseRef)
        IN  \E res \in {runGit(cmd, fault)} :
            /\ Ran(c, cmd, res)
            /\ IF Throws(res, {}, TRUE)
               THEN Resume(c, "thrown", loc[c], GitCommandFailed)
               ELSE Resume(c, "branchCheck", loc[c], "")

\* git show-ref --verify --quiet refs/heads/<mainBranchName>, when no remote
\* was chosen; baseRef falls back to HEAD
ShowRefLocal(c) ==
    /\ pc[c] = "showRefLocal"
    /\ \E fault \in FaultChoices :
        LET cmd == GitCmd("show-ref refs/heads", None, loc[c].mainBranchName,
                          NoPath, NoRef)
        IN  \E res \in {runGit(cmd, fault)} :
            /\ Ran(c, cmd, res)
            /\ Resume(c, "branchCheck",
                      IF Throws(res, {}, TRUE)
                      THEN [loc[c] EXCEPT !.baseRef = HeadRef] ELSE loc[c], "")

\* the branch check; byExitCode says whether the lookup's exit code decides
\* that the branch exists
BranchCheckBy(c, byExitCode) ==
    /\ pc[c] = "branchCheck"
    /\ \E fault \in FaultChoices :
        LET cmd == GitCmd("show-ref refs/heads", None, loc[c].branchName,
                          NoPath, NoRef)
        IN  \E branchCheckResult \in {runGit(cmd, fault)} :
            /\ Ran(c, cmd, branchCheckResult)
            /\ IF Throws(branchCheckResult, {}, FALSE)
               THEN Resume(c, "thrown", loc[c], GitCommandFailed)
               ELSE IF (IF byExitCode THEN branchCheckResult.exitCode = 0
                        ELSE branchCheckResult.stderr = "")
               THEN Resume(c, "thrown", loc[c], BranchAlreadyExists)
               ELSE Resume(c, "revParseBase", loc[c], "")

\* mutant: the decision is taken from the error text, a quiet failure
\* counting as "the branch exists"
BranchCheckByStderr(c) == BranchCheckBy(c, FALSE)

\* git show-ref --verify --quiet refs/heads/<branchName> with throwOnError
\* false: exit code 0 rejects the call
BranchCheck(c) == BranchCheckBy(c, TRUE)

\* const baseCommit = (git rev-parse <baseRef>).stdout.trim()
RevParseBase(c) ==
    /\ pc[c] = "revParseBase"
    /\ \E fault \in FaultChoices :
        LET cmd == GitCmd("rev-parse", None, None, NoPath, loc[c].baseRef)
        IN  \E res \in {runGit(cmd, fault)} :
            /\ Ran(c, cmd, res)
            /\ IF Throws(res, {}, TRUE)
               THEN Resume(c, "thrown", loc[c], GitCommandFailed)
               ELSE Resume(c, "worktreeAdd",
                           [loc[c] EXCEPT !.baseCommit = Text(Trim(res.stdout))], "")

\* git worktree add -b <branchName> <worktreePath> <baseRef>, then return
WorktreeAdd(c) ==
    /\ pc[c] = "worktreeAdd"
    /\ \E fault \in FaultChoices :
        LET cmd == GitCmd("worktree add", None, loc[c].branchName,
                          loc[c].worktreePath, loc[c].baseRef)
        IN  \E res \in {runGit(cmd, fault)} :
            /\ Ran(c, cmd, res)
            /\ IF Throws(res, {}, TRUE)
               THEN Resume(c, "thrown", loc[c], GitCommandFailed)
               ELSE Resume(c, "returned", loc[c], "")

\* the argv of git worktree remove, as removeWorktreePath and the cleanup of
\* createWorktree build it: ['git', 'worktree', 'remove', worktreePath, '--force']
WorktreeRemoveArgv(worktreePath) ==
    <<"git", "worktree", "remove">> \o worktreePath \o <<"--force">>

\* the argv runGit is given for a command of the model
Argv(cmd) ==
    CASE cmd.op = "rev-parse --is-inside-work-tree" ->
            <<"git", "rev-parse", "--is-inside-work-tree">>
      [] cmd.op = "init" -> <<"git", "init">>
      [] cmd.op = "worktree remove" -> WorktreeRemoveArgv(cmd.path)
      [] cmd.op = "rev-parse HEAD" -> <<"git", "rev-parse", "HEAD">>
      [] cmd.op = "add -A" -> <<"git", "add", "-A">>
      [] cmd.op = "commit" -> <<"git", "commit", "-m", "Initial commit", "--allow-empty">>
      [] cmd.op = "remote get-url" -> <<"git", "remote", "get-url", cmd.remote>>
      [] cmd.op = "fetch" -> <<"git", "fetch", cmd.remote>>
      [] cmd.op = "symbolic-ref" ->
            <<"git", "symbolic-ref", "refs/remotes/", cmd.remote, "/", "HEAD">>
      [] cmd.op = "show-ref refs/remotes" ->
            <<"git", "show-ref", "--verify", "--quiet",
              "refs/remotes/", cmd.remote, "/", cmd.branch>>
      [] cmd.op = "rev-parse --abbrev-ref HEAD" ->
            <<"git", "rev-parse", "--abbrev-ref", "HEAD">>
      [] cmd.op = "rev-parse --verify" ->
            <<"git", "rev-parse", "--verify">> \o cmd.ref \o <<"^{commit}">>
      [] cmd.op = "show-ref refs/heads" ->
            <<"git", "show-ref", "--verify", "--quiet", "refs/heads/", cmd.branch>>
      [] cmd.op = "rev-parse" -> <<"git", "rev-parse">> \o cmd.ref
      [] cmd.op = "worktree add" ->
            <<"git", "worktree", "add", "-b", cmd.branch>> \o cmd.path \o cmd.ref
      [] cmd.op = "branch --show-current" -> <<"git", "branch", "--show-current">>

\* mutant: no stderr text is treated as success
TreatNothingAsSuccess == {}

\* what removeWorktreePath asks the executor to treat as success
RemoveTreatAsSuccess == {NotAWorkingTree}

\* git worktree remove <worktreePath> --force; releaseOnThrow says whether the
\* lock is released when the command throws
RemoveWith(c, releaseOnThrow) ==
    /\ pc[c] = "remove"
    /\ \E fault \in FaultChoices :
        LET cmd == GitCmd("worktree remove", None, None, args[c].worktreePath, NoRef)
        IN  \E res \in {runGit(cmd, fault)} :
            /\ Ran(c, cmd, res)
            /\ IF Throws(res, RemoveTreatAsSuccess, TRUE)
               THEN ResumeWith(c, "thrown", loc[c], GitCommandFailed, releaseOnThrow)
               ELSE Resume(c, "returned", loc[c], "")

\* mutant: the lock is released after the command, not in a finally
RemoveWithoutFinally(c) == RemoveWith(c, FALSE)

\* removeWorktreePath: the command runs inside withLock
RemoveWorktreePath(c) == RemoveWith(c, TRUE)

\* ------------------------------------------------- getProjectMainBranch
MainBranchArgs ==
    [op |-> "mainBranch", projectPath |-> ProjectPath, name |-> NoArg,
     branch |-> NoArg, baseBranch |-> NoArg, worktreeFolder |-> NoFolder,
     worktreePath |-> <<>>, sessionId |-> NoArg]

\* what git branch --show-current can print: the branch then a newline,
\* nothing on a detached HEAD; the executor may hand it over padded
ShowCurrentOutputs(g) ==
    IF g.cur = DetachedName
    THEN {<<>>, <<NL>>, <<SP, SP, NL>>}
    ELSE {<<g.cur, NL>>, <<g.cur>>, <<SP, SP, g.cur, SP, SP, NL>>}

\* the error getProjectMainBranch throws itself, and its message
DetachedHead == "detached HEAD state"

DetachedHeadMessage(projectPath) ==
    <<"Cannot determine main branch: repository at ">> \o projectPath
        \o <<" is in detached HEAD state">>

\* mutant: the output is used as printed
Untrimmed(stdout) == stdout

\* const currentBranch = result.stdout.trim()
CurrentBranchOf(stdout) == Trim(stdout)

\* what getProjectMainBranch settles with, given the result of the command
getProjectMainBranch(projectPath, res) ==
    LET currentBranch == CurrentBranchOf(res.stdout)
    IN  IF Throws(res, {}, TRUE)
        THEN [kind |-> "thrown", error |-> GitCommandFailed, value |-> <<>>]
        ELSE IF currentBranch # <<>>
        THEN [kind |-> "returned", error |-> "", value |-> currentBranch]
        ELSE [kind |-> "thrown", error |-> DetachedHead,
              value |-> DetachedHeadMessage(projectPath)]

\* a caller invokes getProjectMainBranch: no lock, the command is awaited
CallMainBranch(c) ==
    /\ pc[c] = "idle"
    /\ \A d \in Calls : d < c => pc[d] # "idle"
    /\ args' = [args EXCEPT ![c] = MainBranchArgs]
    /\ pc' = [pc EXCEPT ![c] = "showCurrent"]
    /\ UNCHANGED <<git, server, cfg, nextCommit, loc, glog, result, lockQueue,
                   projectsCache, faults>>
    /\ UNCHANGED <<watcherVars, listingVars, forkVars, gitDirVars>>

\* git branch --show-current returns and getProjectMainBranch settles
ShowCurrent(c) ==
    /\ pc[c] = "showCurrent"
    /\ \E fault \in FaultChoices, out \in ShowCurrentOutputs(git) :
        LET cmd == GitCmd("branch --show-current", None, None, NoPath, NoRef)
        IN  \E res \in {IF fault THEN Faulted(git)
                         ELSE IF git.isRepo THEN Ok(git, out)
                         ELSE Failed(git, OtherError)} :
            \E settled \in {getProjectMainBranch(args[c].projectPath, res)} :
            /\ glog' = [glog EXCEPT ![c] =
                    Append(@, [step |-> pc[c], cmd |-> cmd, exitCode |-> res.exitCode,
                               stderr |-> res.stderr, stdout |-> res.stdout])]
            /\ faults' = IF fault THEN faults + 1 ELSE faults
            /\ pc' = [pc EXCEPT ![c] = settled.kind]
            /\ result' = [result EXCEPT ![c] = settled]
    /\ UNCHANGED <<git, server, cfg, nextCommit, args, loc, lockQueue,
                   projectsCache>>
    /\ UNCHANGED <<watcherVars, listingVars, forkVars, gitDirVars>>

\* someone pushes a new commit to branch b of remote r
RemotePush(r, b) ==
    /\ nextCommit <= MaxCommits
    /\ cfg.url[r] \notin {NoUrl, UrlBlank}
    /\ server[r][b] # NoCommit
    /\ server' = [server EXCEPT ![r][b] = Commit(nextCommit)]
    /\ nextCommit' = nextCommit + 1
    /\ UNCHANGED <<git, cfg, pc, args, loc, glog, result, lockQueue,
                   projectsCache, faults>>
    /\ UNCHANGED <<watcherVars, listingVars, forkVars, gitDirVars>>

\* --------------------------------------------------- initial repositories
Names == {"n1", "n2"}

\* the worktree path createWorktree gives to name under the default folder
DefaultPath(name) == join(ComputeBaseDir(ProjectPath, NoFolder), <<name>>)

EmptyHeads == [b \in LocalBranches |-> NoCommit]
RefsAt(S) == [b \in RemoteBranches |-> IF b \in S THEN Commit(1) ELSE NoCommit]

\* A repository the program can be started on. kind: "none" (not a
\* repository), "unborn" (no commit yet), a branch name (checked out, one
\* commit), "detached". pre: a local branch that exists besides, or NoArg.
\* refs: the branches each configured remote has; rhead: its symbolic HEAD.
\* A branch pre that is a worktree name has its worktree registered too (a
\* session created earlier).
Repository(kind, pre, originUrl, upstreamUrl, refs, rhead) ==
    LET has(r) == (IF r = "origin" THEN originUrl ELSE upstreamUrl) \notin {NoUrl, UrlBlank}
        born == kind \notin {"none", "unborn"}
        remoteRefs == [r \in Remotes |-> IF has(r) /\ born THEN RefsAt(refs) ELSE RefsAt({})]
        heads0 == [b \in LocalBranches |->
                      IF born /\ (b = kind \/ b = pre \/ (kind = "detached" /\ b = "main"))
                      THEN Commit(1) ELSE NoCommit]
    IN  [git |-> [isRepo |-> kind # "none",
                  cur |-> IF kind = "detached" THEN DetachedName
                          ELSE IF born THEN kind ELSE "main",
                  det |-> IF kind = "detached" THEN Commit(1) ELSE NoCommit,
                  heads |-> heads0,
                  rrefs |-> remoteRefs,
                  wts |-> IF born /\ pre \in Names
                          THEN {[path |-> DefaultPath(pre), branch |-> pre,
                                 commit |-> Commit(1)]}
                          ELSE {}],
         server |-> remoteRefs,
         cfg |-> [url |-> [r \in Remotes |->
                              IF kind = "none" THEN NoUrl
                              ELSE IF r = "origin" THEN originUrl ELSE upstreamUrl],
                  rhead |-> [r \in Remotes |->
                              IF has(r) /\ born /\ rhead \in refs THEN rhead ELSE Null]]]

UrlChoices ==
    {NoUrl, UrlForkSsh, UrlRealSsh, UrlRealHttps, UrlOtherRepo, UrlLocalDir, UrlBlank}

\* the repositories of the concurrent runs
ConcurrentRepositories ==
    {Repository("main", NoArg, UrlForkSsh, UrlRealSsh, {"main"}, "main"),
     Repository("main", "n1", NoUrl, NoUrl, {}, Null)}

\* the repositories of the single-call runs
SingleRepositories ==
    {Repository("main", NoArg, o, u, {"main"}, "main") : o \in UrlChoices, u \in UrlChoices}
    \cup
    {Repository(kind, pre, urls[1], urls[2], refs, rhead) :
        kind \in {"none", "unborn", "main", "dev", "detached"},
        pre \in {NoArg, "n1", "b1"},
        urls \in {<<UrlForkSsh, UrlRealSsh>>, <<UrlRealSsh, NoUrl>>, <<NoUrl, NoUrl>>},
        refs \in {{}, {"main"}, {"master"}, {"dev"}, {"main", "master", "dev"}},
        rhead \in {Null, "main", "dev"}}

InitWith(repositories) ==
    /\ \E r \in repositories : git = r.git /\ server = r.server /\ cfg = r.cfg
    /\ nextCommit = 2
    /\ pc = [c \in Calls |-> "idle"]
    /\ args = [c \in Calls |-> NoArgs]
    /\ loc = [c \in Calls |-> NoLocals]
    /\ glog = [c \in Calls |-> <<>>]
    /\ result = [c \in Calls |-> NoResult]
    /\ lockQueue = <<>>
    /\ projectsCache = {}
    /\ faults = 0

\* ============================================================ GitFileWatcher
WORKTREE_DEBOUNCE_MS == 200
GIT_DEBOUNCE_MS == 50

\* the clock runs up to MaxTime in steps of Tick
MaxTime == 200
Tick == GIT_DEBOUNCE_MS

\* the events counted in one burst (the count saturates)
MaxBurst == 2

\* the subscriber failures in one run
MaxThrows == 1

Sessions == {"s1", "s2"}
WorktreePaths == {"/w1", "/w2"}

\* the subscribers of needs-refresh, in the order they subscribed
Subscribers == <<"u1", "u2">>

\* ---- filenames, as the pieces the ignore patterns cut them into
NoFilename == <<>>
FileSource == <<"src", "/", "a", ".ts">>
FileDsStore == <<".DS_Store">>
FileGitIndex == <<".git", "/", "index">>
FileBackup == <<"notes", "~">>
FileNestedModules == <<"sub", "/", "node_modules", "/", "x", ".js">>
FileSwap == <<"a", ".swp">>
FileLock == <<".#", "lock">>
FileAutosave == <<"sub", "/", "#", "a", "#">>
FileThumbsUpper == <<"Thumbs.db">>
FileThumbs == <<"thumbs.db">>
FileSwo == <<"a", ".swo">>
FileNestedDsStore == <<"sub", "/", ".DS_Store">>
FileNestedGit == <<"sub", "/", ".git", "/", "HEAD">>
FileGitignore == <<".gitignore">>
FileSuffixedDsStore == <<"x", ".DS_Store">>
FileHashOpen == <<"sub", "/", "#", "a">>
FileHashDir == <<"#", "d", "#", "/", "a", ".ts">>

IGNORE_PATTERNS ==
    << <<".git", "/">>, <<"node_modules", "/">>, <<".DS_Store">>, <<"thumbs.db">>,
       <<"*", ".swp">>, <<"*", ".swo">>, <<"*", "~">>, <<".#", "*">>,
       <<"#", "*", "#">> >>

Last(q) == q[Len(q)]

\* String.startsWith, endsWith and includes
StartsWith(q, prefix) ==
    Len(prefix) <= Len(q) /\ SubSeq(q, 1, Len(prefix)) = prefix

EndsWith(q, suffix) ==
    Len(suffix) <= Len(q) /\ SubSeq(q, Len(q) - Len(suffix) + 1, Len(q)) = suffix

Includes(q, part) ==
    \E i \in 1..Len(q) :
        i + Len(part) - 1 <= Len(q) /\ SubSeq(q, i, i + Len(part) - 1) = part

\* filename.split('/').pop() || ''
Basename(filename) ==
    LET slashes == {i \in 1..Len(filename) : filename[i] = "/"}
    IN  IF slashes = {} THEN filename
        ELSE SubSeq(filename, (CHOOSE i \in slashes : \A j \in slashes : j <= i) + 1,
                    Len(filename))

\* mutant: the last branch compares the whole filename only
IgnoredByWholeName(filename, pattern) ==
    IF Last(pattern) = "/"
    THEN StartsWith(filename, pattern) \/ Includes(filename, <<"/">> \o pattern)
    ELSE IF Len(pattern) > 1 /\ pattern[1] = "*" /\ pattern[2] \in {".swp", ".swo"}
    THEN EndsWith(filename, Tail(pattern))
    ELSE IF pattern[1] \in {".#", "#"}
    THEN LET basename == Basename(filename)
         IN  \/ StartsWith(basename, <<".#">>)
             \/ (StartsWith(basename, <<"#">>) /\ EndsWith(basename, <<"#">>))
    ELSE IF Last(pattern) = "~"
    THEN EndsWith(filename, <<"~">>)
    ELSE filename = pattern

\* the test shouldIgnoreFile makes for one pattern
IgnoredBy(filename, pattern) ==
    IF Last(pattern) = "/"
    THEN StartsWith(filename, pattern) \/ Includes(filename, <<"/">> \o pattern)
    ELSE IF Len(pattern) > 1 /\ pattern[1] = "*" /\ pattern[2] \in {".swp", ".swo"}
    THEN EndsWith(filename, Tail(pattern))
    ELSE IF pattern[1] \in {".#", "#"}
    THEN LET basename == Basename(filename)
         IN  \/ StartsWith(basename, <<".#">>)
             \/ (StartsWith(basename, <<"#">>) /\ EndsWith(basename, <<"#">>))
    ELSE IF Last(pattern) = "~"
    THEN EndsWith(filename, <<"~">>)
    ELSE filename = pattern \/ EndsWith(filename, <<"/">> \o pattern)

\* mutant: no filename is ignored
shouldIgnoreNothing(filename) == FALSE

shouldIgnoreFile(filename) ==
    \E i \in 1..Len(IGNORE_PATTERNS) : IgnoredBy(filename, IGNORE_PATTERNS[i])

\* ---- watch handles
WorktreeTarget == "worktree"
GitDirTarget == "gitdir"

\* the paths startGitMetadataWatch watches, in its order
MetadataTargets == <<"index", "HEAD", "logs/HEAD", "packed-refs", GitDirTarget>>

Range(q) == {q[i] : i \in 1..Len(q)}

\* an FSWatcher: its callback closes over sessionId
Handle(sessionId, worktreePath, target) ==
    [sessionId |-> sessionId, worktreePath |-> worktreePath, target |-> target]

Handles ==
    {Handle(s, p, t) :
        s \in Sessions, p \in WorktreePaths,
        t \in {WorktreeTarget} \cup Range(MetadataTargets)}

\* what the file system lets startGitMetadataWatch watch: every path for the
\* worktree /w1, the gitdir alone for /w2 (the watches of its files throw)
Watchable(worktreePath) ==
    IF worktreePath = "/w1" THEN Range(MetadataTargets) ELSE {GitDirTarget}

\* the watchers startGitMetadataWatch returns
startGitMetadataWatch(sessionId, worktreePath, watchable) ==
    LET Keep(t) == t \in watchable
    IN  [i \in 1..Len(SelectSeq(MetadataTargets, Keep)) |->
            Handle(sessionId, worktreePath, SelectSeq(MetadataTargets, Keep)[i])]

\* fs.watch and FSWatcher.close
Opened(h, opening) == [x \in Handles |-> IF x \in opening THEN h[x] + 1 ELSE h[x]]
Closed(h, closing) ==
    [x \in Handles |-> IF x \in closing /\ h[x] > 0 THEN h[x] - 1 ELSE h[x]]

\* ---- Map operations
MapDelete(m, k) == [x \in DOMAIN m \ {k} |-> m[x]]
MapSet(m, k, v) == [x \in DOMAIN m \cup {k} |-> IF x = k THEN v ELSE m[x]]
EmptyMap == [x \in {} |-> 0]

\* ---- the watcher's own state, as one value
Watcher ==
    [watchedSessions |-> watchedSessions,
     refreshDebounceTimers |-> refreshDebounceTimers,
     handles |-> handles]

SetWatcher(w) ==
    /\ watchedSessions' = w.watchedSessions
    /\ refreshDebounceTimers' = w.refreshDebounceTimers
    /\ handles' = w.handles

\* the handles a WatchedSession owns
OwnedBy(session) == {session.watcher} \cup Range(session.gitWatchers)

\* mutant: the session's handles are closed, its record and timer are kept
stopClosingOnly(w, sessionId) ==
    IF sessionId \in DOMAIN w.watchedSessions
    THEN [w EXCEPT !.handles = Closed(@, OwnedBy(w.watchedSessions[sessionId]))]
    ELSE w

\* mutant: every pending timer is cleared
stopClearingAll(w, sessionId) ==
    IF sessionId \in DOMAIN w.watchedSessions
    THEN [watchedSessions |-> MapDelete(w.watchedSessions, sessionId),
          refreshDebounceTimers |-> EmptyMap,
          handles |-> Closed(w.handles, OwnedBy(w.watchedSessions[sessionId]))]
    ELSE w

\* stopWatching(sessionId)
stopWatching(w, sessionId) ==
    IF sessionId \in DOMAIN w.watchedSessions
    THEN [watchedSessions |-> MapDelete(w.watchedSessions, sessionId),
          refreshDebounceTimers |-> MapDelete(w.refreshDebounceTimers, sessionId),
          handles |-> Closed(w.handles, OwnedBy(w.watchedSessions[sessionId]))]
    ELSE w

\* for (const sessionId of this.watchedSessions.keys()) this.stopWatching(sessionId)
RECURSIVE stopEach(_, _)
stopEach(w, keys) ==
    IF keys = {} THEN w
    ELSE LET k == CHOOSE x \in keys : TRUE
         IN  stopEach(stopWatching(w, k), keys \ {k})

\* mutant: a timer that is running is left as it is
scheduleKeepingTimer(timers, sessionId, debounceMs) ==
    IF sessionId \in DOMAIN timers THEN timers
    ELSE MapSet(timers, sessionId, now + debounceMs)

\* scheduleRefreshCheck: a timer is the time at which it elapses
scheduleRefreshCheck(timers, sessionId, debounceMs) ==
    MapSet(timers, sessionId, now + debounceMs)

\* the body the three event handlers share, after their guards
markPending(w, sessionId, debounceMs) ==
    IF sessionId \notin DOMAIN w.watchedSessions THEN w
    ELSE [w EXCEPT
            !.watchedSessions[sessionId].lastModified = now,
            !.watchedSessions[sessionId].pendingRefresh = TRUE,
            !.refreshDebounceTimers =
                scheduleRefreshCheck(@, sessionId, debounceMs)]

handleFileChange(w, sessionId, filename) ==
    IF shouldIgnoreFile(filename) THEN w
    ELSE markPending(w, sessionId, WORKTREE_DEBOUNCE_MS)

handleWorktreeUnknownChange(w, sessionId) ==
    markPending(w, sessionId, WORKTREE_DEBOUNCE_MS)

handleGitMetadataChange(w, sessionId) ==
    markPending(w, sessionId, GIT_DEBOUNCE_MS)

\* ---- what has happened to a session since it was started or stopped
\* events, signals: the accepted events and the signals of the current burst;
\* lastAt, lastMs: the last accepted event of a burst that awaits its signal,
\* and the debounce interval of that event;
\* metaDue: the last git-metadata event that awaits its signal plus
\* GIT_DEBOUNCE_MS, 0 when there is none;
\* cancelled: the deadline of the timer that was pending when the last
\* watch of the session was stopped, 0 when there was none
FreshHistory(cancelled) ==
    [events |-> 0, signals |-> 0, lastAt |-> 0, lastMs |-> 0, metaDue |-> 0,
     cancelled |-> cancelled]

\* the session was stopped by stopWatching or stopAll
StoppedHistory(h, sessionId) ==
    IF sessionId \in DOMAIN watchedSessions
    THEN FreshHistory(IF sessionId \in DOMAIN refreshDebounceTimers
                      THEN refreshDebounceTimers[sessionId] ELSE 0)
    ELSE h

\* an event was accepted for the session
AcceptedHistory(h, sessionId, debounceMs) ==
    LET continues == sessionId \in DOMAIN refreshDebounceTimers
    IN  [events |-> IF continues
                    THEN (IF h.events < MaxBurst THEN h.events + 1 ELSE h.events)
                    ELSE 1,
         signals |-> IF continues THEN h.signals ELSE 0,
         lastAt |-> now,
         lastMs |-> debounceMs,
         metaDue |-> IF debounceMs = GIT_DEBOUNCE_MS THEN now + GIT_DEBOUNCE_MS
                     ELSE h.metaDue,
         cancelled |-> 0]

\* the session was signalled
SignalledHistory(h) ==
    [h EXCEPT !.signals = @ + 1, !.lastAt = 0, !.lastMs = 0, !.metaDue = 0]

\* a call or callback: its name, its sessionId and, for the callback of a
\* worktree watcher, the filename it was given
EventInput(op, sessionId, filename) ==
    [op |-> op, sessionId |-> sessionId, filename |-> filename]
Input(op, sessionId) == EventInput(op, sessionId, NoFilename)
NoInput == Input("none", "")

\* the watcher does not touch the other components
WatcherFrame == UNCHANGED <<managerVars, listingVars, forkVars, gitDirVars>>

\* ---- startWatching(sessionId, worktreePath); stopFirst says whether the
\* prior watch of the session is stopped first
\* startWatching when the metadata watches that open are those of watchable;
\* mode says whether fs.watch accepts the worktree recursively, only
\* non-recursively, or not at all (needsMetadata is set by a mutant only)
StartOpening(sessionId, worktreePath, stopFirst, watchable, needsMetadata) ==
    \E mode \in {"recursive", "fallback", "fail"} :
        LET w1 == IF stopFirst THEN stopWatching(Watcher, sessionId) ELSE Watcher
            session ==
                [sessionId |-> sessionId,
                 worktreePath |-> worktreePath,
                 watcher |-> Handle(sessionId, worktreePath, WorktreeTarget),
                 gitWatchers |->
                    startGitMetadataWatch(sessionId, worktreePath, watchable),
                 lastModified |-> now,
                 pendingRefresh |-> FALSE]
        IN  /\ SetWatcher(
                    IF mode = "fail" \/ (needsMetadata /\ watchable = {}) THEN w1
                    ELSE [w1 EXCEPT
                            !.watchedSessions = MapSet(@, sessionId, session),
                            !.handles = Opened(@, OwnedBy(session))])
            /\ hist' = [hist EXCEPT ![sessionId] =
                            IF ~stopFirst THEN @
                            ELSE IF mode = "fail" THEN StoppedHistory(@, sessionId)
                            ELSE FreshHistory(0)]
            /\ input' = Input(IF mode = "fail" THEN "startWatching failed"
                               ELSE IF sessionId \in DOMAIN watchedSessions
                               THEN "startWatching watched"
                               ELSE "startWatching", sessionId)
            /\ emitted' = <<>>
    /\ UNCHANGED <<now, throws>>
            /\ WatcherFrame

\* startWatching at the worktrees of the runs
StartWith(sessionId, worktreePath, stopFirst) ==
    StartOpening(sessionId, worktreePath, stopFirst, Watchable(worktreePath), FALSE)

\* mutant: the prior watch is not stopped
StartWithoutStop(sessionId, worktreePath) == StartWith(sessionId, worktreePath, FALSE)

StartWatching(sessionId, worktreePath) == StartWith(sessionId, worktreePath, TRUE)

StopWatching(sessionId) ==
    /\ SetWatcher(stopWatching(Watcher, sessionId))
    /\ hist' = [hist EXCEPT ![sessionId] = StoppedHistory(@, sessionId)]
    /\ input' = Input(IF sessionId \in DOMAIN watchedSessions
                       THEN "stopWatching" ELSE "stopWatching unwatched", sessionId)
    /\ emitted' = <<>>
    /\ UNCHANGED <<now, throws>>
    /\ WatcherFrame

StopAll ==
    /\ SetWatcher(stopEach(Watcher, DOMAIN watchedSessions))
    /\ hist' = [s \in Sessions |-> StoppedHistory(hist[s], s)]
    /\ input' = Input("stopAll", "")
    /\ emitted' = <<>>
    /\ UNCHANGED <<now, throws>>
    /\ WatcherFrame

\* the callback of the worktree watcher h runs, with or without a filename
WorktreeEvent(h, filename) ==
    /\ h.target = WorktreeTarget
    /\ handles[h] > 0
    /\ \E w \in {IF filename # NoFilename
                 THEN handleFileChange(Watcher, h.sessionId, filename)
                 ELSE handleWorktreeUnknownChange(Watcher, h.sessionId)} :
        /\ SetWatcher(w)
        /\ hist' = IF \/ h.sessionId \notin DOMAIN watchedSessions
                      \/ (filename # NoFilename /\ shouldIgnoreFile(filename))
                   THEN hist
                   ELSE [hist EXCEPT ![h.sessionId] =
                            AcceptedHistory(@, h.sessionId, WORKTREE_DEBOUNCE_MS)]
    /\ input' = EventInput("worktree event", h.sessionId, filename)
    /\ emitted' = <<>>
    /\ UNCHANGED <<now, throws>>
    /\ WatcherFrame

\* the callback of the git-metadata watcher h runs
GitMetadataEvent(h) ==
    /\ h.target # WorktreeTarget
    /\ handles[h] > 0
    /\ \E w \in {handleGitMetadataChange(Watcher, h.sessionId)} :
        /\ SetWatcher(w)
        /\ hist' = IF h.sessionId \notin DOMAIN watchedSessions THEN hist
                   ELSE [hist EXCEPT ![h.sessionId] =
                            AcceptedHistory(@, h.sessionId, GIT_DEBOUNCE_MS)]
    /\ input' = Input("git event", h.sessionId)
    /\ emitted' = <<>>
    /\ UNCHANGED <<now, throws>>
    /\ WatcherFrame

\* ---- the timer callback and performRefreshCheck
\* one this.emit('needs-refresh', sessionId): thrower is the position of the
\* subscriber whose handler threw, 0 when none did; retry says that it is the
\* emit of the catch block
Emission(sessionId, retry, thrower) ==
    [sessionId |-> sessionId, retry |-> retry, thrower |-> thrower]

\* what performRefreshCheck emits: once, or once more from its catch block
\* when a subscriber threw
EmitOutcomes(sessionId) ==
    {<<Emission(sessionId, FALSE, 0)>>}
    \cup {<<Emission(sessionId, FALSE, u), Emission(sessionId, TRUE, 0)>> :
            u \in {x \in 1..Len(Subscribers) : throws < MaxThrows}}
    \cup {<<Emission(sessionId, FALSE, u), Emission(sessionId, TRUE, v)>> :
            u \in {x \in 1..Len(Subscribers) : throws + 1 < MaxThrows},
            v \in 1..Len(Subscribers)}

\* the handlers that threw during these emissions
ThrowsIn(emits) == Cardinality({i \in 1..Len(emits) : emits[i].thrower # 0})

\* the debounce timer of the session elapses
TimerElapses(sessionId) ==
    /\ sessionId \in DOMAIN refreshDebounceTimers
    /\ refreshDebounceTimers[sessionId] <= now
    /\ refreshDebounceTimers' = MapDelete(refreshDebounceTimers, sessionId)
    /\ IF \/ sessionId \notin DOMAIN watchedSessions
          \/ ~watchedSessions[sessionId].pendingRefresh
       THEN /\ emitted' = <<>>
            /\ UNCHANGED <<watchedSessions, throws, hist>>
       ELSE /\ watchedSessions' =
                    [watchedSessions EXCEPT ![sessionId].pendingRefresh = FALSE]
            /\ \E emits \in EmitOutcomes(sessionId) :
                    /\ emitted' = emits
                    /\ throws' = throws + ThrowsIn(emits)
            /\ hist' = [hist EXCEPT ![sessionId] = SignalledHistory(@)]
    /\ input' = Input("timer", sessionId)
    /\ UNCHANGED <<handles, now>>
    /\ WatcherFrame

\* mutant: every watched session is counted as needing a refresh
getStatsCountingAll(w) ==
    [totalWatched |-> Cardinality(DOMAIN w.watchedSessions),
     sessionsNeedingRefresh |-> Cardinality(DOMAIN w.watchedSessions)]

\* getStats()
getStats(w) ==
    [totalWatched |-> Cardinality(DOMAIN w.watchedSessions),
     sessionsNeedingRefresh |->
        Cardinality({sessionId \in DOMAIN w.watchedSessions :
                        w.watchedSessions[sessionId].pendingRefresh})]

\* time passes; a timer elapses when its time has come
TimePasses ==
    /\ \A s \in DOMAIN refreshDebounceTimers : refreshDebounceTimers[s] > now
    /\ now + Tick <= MaxTime
    /\ now' = now + Tick
    /\ input' = Input("time", "")
    /\ emitted' = <<>>
    /\ UNCHANGED <<watchedSessions, refreshDebounceTimers, handles, throws, hist>>
    /\ WatcherFrame

\* the watcher after construction
WatcherInit ==
    /\ watchedSessions = EmptyMap
    /\ refreshDebounceTimers = EmptyMap
    /\ handles = [x \in Handles |-> 0]
    /\ now = 0
    /\ emitted = <<>>
    /\ throws = 0
    /\ input = NoInput
    /\ hist = [s \in Sessions |-> FreshHistory(0)]

\* the filenames the worktree watcher reports in the runs
EventFilenames == {NoFilename, FileSource, FileDsStore}

\* the worktree paths the sessions are started with in the runs
PathsOf(sessionId) == IF sessionId = "s1" THEN WorktreePaths ELSE {"/w2"}

WatcherNext ==
    \/ \E s \in Sessions : \E p \in PathsOf(s) : StartWatching(s, p)
    \/ \E s \in Sessions : StopWatching(s)
    \/ StopAll
    \/ \E h \in Handles, f \in EventFilenames : WorktreeEvent(h, f)
    \/ \E h \in Handles : GitMetadataEvent(h)
    \/ \E s \in Sessions : TimerElapses(s)
    \/ TimePasses

\* ------------------------------------------------------ listWorktrees
MaxLines == 4

\* a line git prints: its kind, its value (a path, a sha, a branch name or a
\* reason) and whether blanks follow it
PorcelainLine(kind, value, padded) == [kind |-> kind, value |-> value, padded |-> padded]

PorcelainLines ==
    {PorcelainLine("worktree", <<p>>, pad) : p \in {"/a", "/b"}, pad \in BOOLEAN}
    \cup {PorcelainLine("HEAD", <<"abc">>, FALSE),
          PorcelainLine("branch", <<"main">>, FALSE),
          PorcelainLine("detached", <<>>, FALSE),
          PorcelainLine("locked", <<>>, FALSE),
          PorcelainLine("locked", <<"reason">>, FALSE),
          PorcelainLine("prunable", <<"reason">>, FALSE),
          PorcelainLine("bare", <<>>, FALSE),
          PorcelainLine("blank", <<>>, FALSE)}

\* the characters of a line as git writes it
LineText(l) ==
    (CASE l.kind = "blank" -> <<>>
       [] l.kind = "branch" -> <<"branch", SP, "refs/heads/">> \o l.value
       [] l.kind \in {"worktree", "HEAD"} -> <<l.kind, SP>> \o l.value
       [] OTHER -> IF l.value = <<>> THEN <<l.kind>> ELSE <<l.kind, SP>> \o l.value)
    \o (IF l.padded THEN <<SP>> ELSE <<>>)

\* the stdout of git worktree list --porcelain: every line ends with \n
RECURSIVE PorcelainText(_)
PorcelainText(lines) ==
    IF lines = <<>> THEN <<>>
    ELSE LineText(Head(lines)) \o <<NL>> \o PorcelainText(Tail(lines))

\* String.split('\n')
RECURSIVE SplitLines(_, _)
SplitLines(stdout, line) ==
    IF stdout = <<>> THEN <<line>>
    ELSE IF Head(stdout) = NL THEN <<line>> \o SplitLines(Tail(stdout), <<>>)
    ELSE SplitLines(Tail(stdout), Append(line, Head(stdout)))

\* String.slice(n)
Slice(q, n) == SubSeq(q, n + 1, Len(q))

\* the branch of an entry that has none
NoBranch == <<Null>>

\* mutant: the ref is kept as git printed it
KeepRef(ref) == ref

\* ref.startsWith('refs/heads/') ? ref.slice('refs/heads/'.length) : ref
StripHeads(ref) == IF StartsWith(ref, <<"refs/heads/">>) THEN Slice(ref, 1) ELSE ref

NewEntry(path) ==
    [path |-> path, head |-> <<>>, branch |-> NoBranch,
     detached |-> FALSE, locked |-> FALSE, prunable |-> FALSE]

\* flush(): current is a sequence of no or one entry
Flush(st) ==
    [out |-> IF st.current # <<>> /\ st.current[1].path # <<>>
             THEN st.out \o st.current ELSE st.out,
     current |-> <<>>]

\* one iteration of the loop over the lines
LineStep(st, rawLine) ==
    LET line == TrimEnd(rawLine)
        Set(entry) == [st EXCEPT !.current = <<entry>>]
    IN  IF line = <<>> THEN st
        ELSE IF StartsWith(line, <<"worktree", SP>>)
        THEN [Flush(st) EXCEPT !.current = <<NewEntry(Trim(Slice(line, 2)))>>]
        ELSE IF st.current = <<>> THEN st
        ELSE IF StartsWith(line, <<"HEAD", SP>>)
        THEN Set([st.current[1] EXCEPT !.head = Trim(Slice(line, 2))])
        ELSE IF StartsWith(line, <<"branch", SP>>)
        THEN Set([st.current[1] EXCEPT !.branch = StripHeads(Trim(Slice(line, 2)))])
        ELSE IF line = <<"detached">>
        THEN Set([st.current[1] EXCEPT !.detached = TRUE])
        ELSE IF StartsWith(line, <<"locked">>)
        THEN Set([st.current[1] EXCEPT !.locked = TRUE])
        ELSE IF StartsWith(line, <<"prunable">>)
        THEN Set([st.current[1] EXCEPT !.prunable = TRUE])
        ELSE st

RECURSIVE LineLoop(_, _)
LineLoop(st, lines) ==
    IF lines = <<>> THEN st ELSE LineLoop(LineStep(st, Head(lines)), Tail(lines))

\* the list listWorktrees returns for the stdout of git
listWorktrees(stdout) ==
    Flush(LineLoop([out |-> <<>>, current |-> <<>>], SplitLines(stdout, <<>>))).out

NotParsed == [done |-> FALSE, out |-> <<>>]

ListingFrame == UNCHANGED <<managerVars, watcherVars, forkVars, gitDirVars>>

\* a call of listWorktrees
ListWorktrees ==
    /\ ~parsed.done
    /\ parsed' = [done |-> TRUE, out |-> listWorktrees(PorcelainText(porcelain))]
    /\ UNCHANGED <<porcelain, dpc, list, dloc, detailed, dlog>>
    /\ ListingFrame

\* the outputs of up to MaxLines lines
RECURSIVE LinesUpTo(_)
LinesUpTo(n) ==
    IF n = 0 THEN {<<>>}
    ELSE LinesUpTo(n - 1)
         \cup {Append(q, l) : q \in {x \in LinesUpTo(n - 1) : Len(x) = n - 1},
                               l \in PorcelainLines}

\* ----------------------------------------------- listWorktreesDetailed
MaxCount == 10

\* ---- the outcome of a step: whether it succeeded and what it delivered
\* stat of <path>/.git
StatOutcome(ok, birthtimeMs, ctimeMs, mtimeMs) ==
    [ok |-> ok, birthtimeMs |-> birthtimeMs, ctimeMs |-> ctimeMs, mtimeMs |-> mtimeMs]
\* git status --porcelain of a clean or a dirty worktree; git log of a
\* branch with or without a commit
TextOutcome(ok, kind) == [ok |-> ok, kind |-> kind]
\* git diff --shortstat: the three counts, 0 for a group git does not print
ShortstatOutcome(ok, files, ins, del) ==
    [ok |-> ok, files |-> files, ins |-> ins, del |-> del]

StatOutcomes ==
    {StatOutcome(FALSE, 0, 0, 0), StatOutcome(TRUE, 1000, 2000, 2000),
     StatOutcome(TRUE, 0, 2000, 3000), StatOutcome(TRUE, 0, 0, 0)}
StatusOutcomes ==
    {TextOutcome(FALSE, "clean"), TextOutcome(TRUE, "clean"), TextOutcome(TRUE, "dirty")}
LogOutcomes ==
    {TextOutcome(FALSE, "none"), TextOutcome(TRUE, "none"), TextOutcome(TRUE, "dated")}

Counts == {0, 1, 2, MaxCount}
AllShortstatOutcomes ==
    {ShortstatOutcome(ok, f, i, d) :
        ok \in BOOLEAN, f \in Counts, i \in Counts, d \in Counts}
FewShortstatOutcomes ==
    {ShortstatOutcome(FALSE, 2, 1, 1), ShortstatOutcome(TRUE, 0, 0, 0),
     ShortstatOutcome(TRUE, 2, MaxCount, 1)}

\* ---- what the commands print
\* the decimal numeral of a count, and Number() of a numeral
Numerals == <<"0", "1", "2", "3", "4", "5", "6", "7", "8", "9", "10", "11">>
Decimal(n) == Numerals[n + 1]
Number(numeral) == (CHOOSE n \in 1..Len(Numerals) : Numerals[n] = numeral) - 1
IsDigits(token) == \E n \in 1..Len(Numerals) : Numerals[n] = token

\* one group of git diff --shortstat, preceded by a blank: " <n> <noun>[s]<suffix>"
Group(n, singular, plural, suffix) ==
    IF n = 0 THEN <<>>
    ELSE <<SP, Decimal(n), SP, IF n = 1 THEN singular ELSE plural>> \o suffix

\* the groups separated by commas
Joined(a, b) == IF a # <<>> /\ b # <<>> THEN a \o <<",">> \o b ELSE a \o b

\* the stdout of git diff --shortstat
ShortstatText(o) ==
    LET groups ==
            Joined(Joined(Group(o.files, "file", "files", <<SP, "changed">>),
                          Group(o.ins, "insertion", "insertions", <<"(+)">>)),
                   Group(o.del, "deletion", "deletions", <<"(-)">>))
    IN  IF groups = <<>> THEN <<>> ELSE groups \o <<NL>>

StatusText(o) == IF o.kind = "dirty" THEN <<SP, "M", SP, "a.ts", NL>> ELSE <<>>

CommitDate == "2026-01-01 00:00:00 +0000"
LogText(o) == IF o.kind = "dated" THEN <<CommitDate, NL>> ELSE <<>>

\* ---- the computations of the loop body
\* new Date(ms).toISOString()
ToISOString(ms) ==
    CASE ms = 1000 -> "1970-01-01T00:00:01.000Z"
      [] ms = 2000 -> "1970-01-01T00:00:02.000Z"
      [] ms = 3000 -> "1970-01-01T00:00:03.000Z"
      [] OTHER -> "1970-01-01T00:00:00.000Z"

\* st.birthtimeMs && st.birthtimeMs > 0 ? st.birthtimeMs : st.ctimeMs || st.mtimeMs
CreatedMs(st) ==
    IF st.birthtimeMs # 0 /\ st.birthtimeMs > 0 THEN st.birthtimeMs
    ELSE IF st.ctimeMs # 0 THEN st.ctimeMs ELSE st.mtimeMs

CreatedAt(st) == IF CreatedMs(st) # 0 THEN ToISOString(CreatedMs(st)) ELSE Null

\* the first position at or after i of q that holds no whitespace
RECURSIVE SkipWhitespace(_, _)
SkipWhitespace(q, i) ==
    IF i <= Len(q) /\ q[i] \in Whitespace THEN SkipWhitespace(q, i + 1) ELSE i

\* the positions where /(\d+)\s+<noun>s?<rest>/ matches: rest is \s+changed
\* when spaced, otherwise the suffix itself
MatchesAt(q, i, nouns, spaced, suffix) ==
    /\ i + 1 <= Len(q)
    /\ IsDigits(q[i])
    /\ q[i + 1] \in Whitespace
    /\ LET j == SkipWhitespace(q, i + 1)
       IN  /\ j + 1 <= Len(q)
           /\ q[j] \in nouns
           /\ IF spaced
              THEN /\ q[j + 1] \in Whitespace
                   /\ LET k == SkipWhitespace(q, j + 1)
                      IN  k <= Len(q) /\ q[k] = suffix
              ELSE q[j + 1] = suffix

\* mutant: no group is found
CountOfNone(q, nouns, spaced, suffix) == 0

\* match ? Number(match[1]) : 0, for the leftmost match
CountOf(q, nouns, spaced, suffix) ==
    LET hits == {i \in 1..Len(q) : MatchesAt(q, i, nouns, spaced, suffix)}
    IN  IF hits = {} THEN 0
        ELSE Number(q[CHOOSE i \in hits : \A j \in hits : i <= j])

\* the three counts of a shortstat output
ParseShortstat(shortstatOut) ==
    LET text == Trim(shortstatOut)
    IN  IF text = <<>> THEN [filesChanged |-> 0, additions |-> 0, deletions |-> 0]
        ELSE [filesChanged |-> CountOf(text, {"file", "files"}, TRUE, "changed"),
              additions |-> CountOf(text, {"insertion", "insertions"}, FALSE, "(+)"),
              deletions |-> CountOf(text, {"deletion", "deletions"}, FALSE, "(-)")]

\* String.replace(/\/+$/, '')
RECURSIVE StripSlashes(_)
StripSlashes(q) ==
    IF q # <<>> /\ Last(q) = "/" THEN StripSlashes(SubSeq(q, 1, Len(q) - 1)) ELSE q

\* the projectPath of the call
ListedProject == <<"/a", "/">>

\* the locals of an iteration before its first step
NewLocals(i) ==
    [i |-> i, createdAt |-> Null, hasChanges |-> FALSE, filesChanged |-> 0,
     additions |-> 0, deletions |-> 0, lastCommitAt |-> Null]

\* the outcomes of an iteration that has not run its steps
NoOutcomes ==
    [stat |-> StatOutcome(FALSE, 0, 0, 0), status |-> TextOutcome(FALSE, "clean"),
     shortstat |-> ShortstatOutcome(FALSE, 0, 0, 0), log |-> TextOutcome(FALSE, "none")]

\* { ...entry, isMain, hasChanges, createdAt, lastCommitAt, additions, ... }
DetailedEntry(entry, l) ==
    [path |-> entry.path, head |-> entry.head, branch |-> entry.branch,
     detached |-> entry.detached, locked |-> entry.locked, prunable |-> entry.prunable,
     isMain |-> StripSlashes(entry.path) = StripSlashes(ListedProject),
     hasChanges |-> l.hasChanges, createdAt |-> l.createdAt,
     lastCommitAt |-> l.lastCommitAt, additions |-> l.additions,
     deletions |-> l.deletions, filesChanged |-> l.filesChanged]

DetailedFrame == UNCHANGED <<managerVars, watcherVars, forkVars, gitDirVars, porcelain, parsed>>

\* listWorktreesDetailed is called and awaits listWorktrees
CallDetailed ==
    /\ dpc = "idle"
    /\ dpc' = "list"
    /\ UNCHANGED <<list, dloc, detailed, dlog>>
    /\ DetailedFrame

\* listWorktrees returns or throws
ListReturns ==
    /\ dpc = "list"
    /\ \E ok \in BOOLEAN :
        IF ok
        THEN \E l \in {listWorktrees(PorcelainText(porcelain))} :
                /\ list' = l
                /\ detailed' = <<>>
                /\ dpc' = IF l = <<>> THEN "returned" ELSE "stat"
                /\ dloc' = NewLocals(1)
                /\ dlog' = IF l = <<>> THEN <<>> ELSE <<NoOutcomes>>
        ELSE /\ dpc' = "threw"
             /\ UNCHANGED <<list, dloc, detailed, dlog>>
    /\ DetailedFrame

\* await stat(join(entry.path, '.git'))
StatReturns ==
    /\ dpc = "stat"
    /\ \E o \in StatOutcomes :
        /\ dloc' = [dloc EXCEPT !.createdAt = IF o.ok THEN CreatedAt(o) ELSE Null]
        /\ dlog' = [dlog EXCEPT ![dloc.i].stat = o]
    /\ dpc' = "status"
    /\ UNCHANGED <<list, detailed>>
    /\ DetailedFrame

\* mutant: a failure of git status ends the call
StatusAborts ==
    /\ dpc = "status"
    /\ \E o \in StatusOutcomes :
        /\ dloc' = [dloc EXCEPT !.hasChanges =
                        IF o.ok THEN Len(Trim(StatusText(o))) > 0 ELSE FALSE]
        /\ dlog' = [dlog EXCEPT ![dloc.i].status = o]
        /\ dpc' = IF o.ok THEN "shortstat" ELSE "threw"
    /\ UNCHANGED <<list, detailed>>
    /\ DetailedFrame

\* await git status --porcelain
StatusReturns ==
    /\ dpc = "status"
    /\ \E o \in StatusOutcomes :
        /\ dloc' = [dloc EXCEPT !.hasChanges =
                        IF o.ok THEN Len(Trim(StatusText(o))) > 0 ELSE FALSE]
        /\ dlog' = [dlog EXCEPT ![dloc.i].status = o]
    /\ dpc' = "shortstat"
    /\ UNCHANGED <<list, detailed>>
    /\ DetailedFrame

\* await git diff --shortstat, for the outcomes of the run
ShortstatReturns(outcomes) ==
    /\ dpc = "shortstat"
    /\ \E o \in outcomes :
        /\ \E counts \in {IF o.ok THEN ParseShortstat(ShortstatText(o))
                          ELSE [filesChanged |-> 0, additions |-> 0, deletions |-> 0]} :
            dloc' = [dloc EXCEPT !.filesChanged = counts.filesChanged,
                                 !.additions = counts.additions,
                                 !.deletions = counts.deletions]
        /\ dlog' = [dlog EXCEPT ![dloc.i].shortstat = o]
    /\ dpc' = "log"
    /\ UNCHANGED <<list, detailed>>
    /\ DetailedFrame

\* await git log -1 --format=%ci, the push of the entry and the next
\* iteration up to its await
LogReturns ==
    /\ dpc = "log"
    /\ \E o \in LogOutcomes :
        \E l \in {[dloc EXCEPT !.lastCommitAt =
                        IF o.ok /\ Trim(LogText(o)) # <<>>
                        THEN Trim(LogText(o))[1] ELSE Null]} :
            /\ detailed' = Append(detailed, DetailedEntry(list[dloc.i], l))
            /\ IF dloc.i < Len(list)
               THEN /\ dloc' = NewLocals(dloc.i + 1)
                    /\ dlog' = Append([dlog EXCEPT ![dloc.i].log = o], NoOutcomes)
                    /\ dpc' = "stat"
               ELSE /\ dloc' = l
                    /\ dlog' = [dlog EXCEPT ![dloc.i].log = o]
                    /\ dpc' = "returned"
    /\ UNCHANGED list
    /\ DetailedFrame

DetailedNext ==
    \/ CallDetailed
    \/ ListReturns
    \/ StatReturns
    \/ StatusReturns
    \/ ShortstatReturns(FewShortstatOutcomes)
    \/ LogReturns

\* the listings of the runs: no worktree, one, two
DetailedListings ==
    {<<>>,
     <<PorcelainLine("worktree", <<"/a">>, FALSE), PorcelainLine("HEAD", <<"abc">>, FALSE),
       PorcelainLine("branch", <<"main">>, FALSE), PorcelainLine("blank", <<>>, FALSE)>>,
     <<PorcelainLine("worktree", <<"/a">>, FALSE), PorcelainLine("branch", <<"main">>, FALSE),
       PorcelainLine("blank", <<>>, FALSE),
       PorcelainLine("worktree", <<"/b">>, FALSE), PorcelainLine("detached", <<>>, FALSE),
       PorcelainLine("blank", <<>>, FALSE)>>}

\* --------------------------------------------------- isForkOfUpstream
\* A remote URL as its parts: the form it is written in, the host, the owner,
\* the repository and whether it ends in .git.
UrlForms == {"ssh", "https", "http", "path"}
UrlHosts == {"github.com", "gitlab.com"}
UrlOwners == {"forkOwner", "realOwner"}
UrlRepos == {"repo", "other"}

UrlDescriptions ==
    [form : UrlForms, host : UrlHosts, owner : UrlOwners, repo : UrlRepos,
     dotGit : BOOLEAN]

\* the URL as the text git remote get-url prints
UrlText(d) ==
    LET tail == <<d.owner, "/", d.repo>> \o (IF d.dotGit THEN <<".git">> ELSE <<>>)
    IN  CASE d.form = "ssh" -> <<"git@", d.host, ":">> \o tail
          [] d.form = "https" -> <<"https://", d.host, "/">> \o tail
          [] d.form = "http" -> <<"http://", d.host, "/">> \o tail
          [] d.form = "path" -> <<"/", "srv", "/">> \o tail

NotAsked == [done |-> FALSE, origin |-> NoMatch, upstream |-> NoMatch, isFork |-> FALSE]

\* nobody has called isForkOfUpstream on its own
ForkInit ==
    /\ remoteUrls = <<>>
    /\ forkResult = NotAsked

\* parseGitHubOwnerRepo on each URL and isForkOfUpstream on the pair
CallIsForkOfUpstream ==
    /\ ~forkResult.done
    /\ remoteUrls # <<>>
    /\ forkResult' =
            [done |-> TRUE,
             origin |-> parseGitHubOwnerRepo(UrlText(remoteUrls[1])),
             upstream |-> parseGitHubOwnerRepo(UrlText(remoteUrls[2])),
             isFork |-> isForkOfUpstream(UrlText(remoteUrls[1]), UrlText(remoteUrls[2]))]
    /\ UNCHANGED <<remoteUrls, managerVars, watcherVars, listingVars, gitDirVars>>

\* ------------------------------------------------------ resolveGitDir
\* paths are cut at their separators: "/" and the names between
IsName(t) == t # "/"
Segments(path) == SelectSeq(path, IsName)

\* path.resolve: "." and ".." are worked off from the left
RECURSIVE Normalize(_, _)
Normalize(done, rest) ==
    IF rest = <<>> THEN done
    ELSE IF Head(rest) = "." THEN Normalize(done, Tail(rest))
    ELSE IF Head(rest) = ".."
    THEN Normalize(IF done = <<>> THEN done ELSE SubSeq(done, 1, Len(done) - 1), Tail(rest))
    ELSE Normalize(Append(done, Head(rest)), Tail(rest))

RECURSIVE Absolute(_)
Absolute(segments) ==
    IF segments = <<>> THEN <<>>
    ELSE <<"/", Head(segments)>> \o Absolute(Tail(segments))

\* path.resolve(base, raw) for an absolute base
resolve(base, raw) ==
    LET segments == Normalize(<<>>, Segments(base) \o Segments(raw))
    IN  IF segments = <<>> THEN <<"/">> ELSE Absolute(segments)

\* path.dirname of a path that ends with a name below a directory
dirname(path) == SubSeq(path, 1, Len(path) - 2)

isAbsolute(path) == path # <<>> /\ Head(path) = "/"

\* the /i flag: the spellings of the key in the runs
LowerCase(t) == IF t \in {"GITDIR:", "GitDir:"} THEN "gitdir:" ELSE t

AllWhitespace(q) == \A i \in 1..Len(q) : q[i] \in Whitespace

NoGroups == [matched |-> FALSE, capture |-> <<>>]

\* mutant: the key is matched as it is spelled
MatchGitDirCaseSensitive(content) ==
    IF content = <<>> \/ Head(content) # "gitdir:" THEN NoGroups
    ELSE LET body == Tail(content)
             n == Len(body)
             fits == {ab \in (0..n) \X (0..n) :
                        /\ ab[1] < ab[2]
                        /\ AllWhitespace(SubSeq(body, 1, ab[1]))
                        /\ ~Contains(SubSeq(body, ab[1] + 1, ab[2]), NL)
                        /\ AllWhitespace(SubSeq(body, ab[2] + 1, n))}
         IN  IF fits = {} THEN NoGroups
             ELSE LET first == CHOOSE ab \in fits : \A cd \in fits : cd[1] <= ab[1]
                      best == CHOOSE ab \in fits :
                                /\ ab[1] = first[1]
                                /\ \A cd \in fits : cd[1] = first[1] => cd[2] <= ab[2]
                  IN  [matched |-> TRUE,
                       capture |-> SubSeq(body, best[1] + 1, best[2])]

\* content.match(/^gitdir:\s*(.+)\s*$/i): the key, blanks, the captured
\* characters of one line, blanks up to the end; each quantifier is greedy
MatchGitDir(content) ==
    IF content = <<>> \/ LowerCase(Head(content)) # "gitdir:" THEN NoGroups
    ELSE LET body == Tail(content)
             n == Len(body)
             fits == {ab \in (0..n) \X (0..n) :
                        /\ ab[1] < ab[2]
                        /\ AllWhitespace(SubSeq(body, 1, ab[1]))
                        /\ ~Contains(SubSeq(body, ab[1] + 1, ab[2]), NL)
                        /\ AllWhitespace(SubSeq(body, ab[2] + 1, n))}
         IN  IF fits = {} THEN NoGroups
             ELSE LET first == CHOOSE ab \in fits : \A cd \in fits : cd[1] <= ab[1]
                      best == CHOOSE ab \in fits :
                                /\ ab[1] = first[1]
                                /\ \A cd \in fits : cd[1] = first[1] => cd[2] <= ab[2]
                  IN  [matched |-> TRUE,
                       capture |-> SubSeq(body, best[1] + 1, best[2])]

\* what is at <worktreePath>/.git: nothing, a directory or a file; whether
\* statSync and readFileSync fail on it; the text of the file, in its parts
DotGitEntry(worktreePath, kind, statFails, readFails, lead, key, gap, path, trail) ==
    [worktreePath |-> worktreePath, kind |-> kind, statFails |-> statFails,
     readFails |-> readFails, lead |-> lead, key |-> key, gap |-> gap,
     path |-> path, trail |-> trail]

\* the characters of the file
DotGitText(entry) ==
    entry.lead \o <<entry.key>> \o entry.gap \o entry.path \o entry.trail

\* what resolveGitDir returned: a path, or null
GitDirPath(path) == [done |-> TRUE, isNull |-> FALSE, threw |-> FALSE, path |-> path]
GitDirNull == [done |-> TRUE, isNull |-> TRUE, threw |-> FALSE, path |-> <<>>]
NotResolved == [done |-> FALSE, isNull |-> FALSE, threw |-> FALSE, path |-> <<>>]

resolveGitDir(worktreePath, entry) ==
    LET dotGit == join(worktreePath, <<".git">>)
    IN  IF entry.kind = "absent" THEN GitDirNull
        ELSE IF ~entry.statFails /\ entry.kind = "directory" THEN GitDirPath(dotGit)
        ELSE IF entry.kind = "directory" \/ entry.readFails THEN GitDirNull
        ELSE LET content == Trim(DotGitText(entry))
                 m == MatchGitDir(content)
             IN  IF ~m.matched THEN GitDirNull
                 ELSE LET raw == Trim(m.capture)
                          base == dirname(dotGit)
                      IN  IF raw = <<>> THEN GitDirNull
                          ELSE IF isAbsolute(raw) THEN GitDirPath(raw)
                          ELSE GitDirPath(resolve(base, raw))

NoEntry == DotGitEntry(<<>>, "none", FALSE, FALSE, <<>>, "", <<>>, <<>>, <<>>)

\* nobody has called resolveGitDir on its own
GitDirInit ==
    /\ dotGitEntry = NoEntry
    /\ gitDir = NotResolved

CallResolveGitDir ==
    /\ ~gitDir.done
    /\ dotGitEntry.kind # "none"
    /\ gitDir' = resolveGitDir(dotGitEntry.worktreePath, dotGitEntry)
    /\ UNCHANGED <<dotGitEntry, managerVars, watcherVars, listingVars, forkVars>>

\* ---- the worktrees and .git entries of the runs
WorktreeOne == <<"/", "w1">>
WorktreeNested == <<"/", "projects", "/", "w2">>
PathAbsolute == <<"/", "repo", "/", ".git", "/", "worktrees", "/", "w">>
PathUpward == <<"..", "/", "repo", "/", ".git", "/", "worktrees", "/", "w">>
PathBelow == <<"real.git">>
PathDotted == <<".", "/", "real.git">>

DotGitFiles ==
    {DotGitEntry(w, "file", statFails, FALSE, lead, key, gap, path, trail) :
        w \in {WorktreeOne, WorktreeNested},
        statFails \in BOOLEAN,
        lead \in {<<>>, <<SP>>, <<"#">>},
        key \in {"gitdir:", "GITDIR:", "gitdir", "worktree:"},
        gap \in {<<>>, <<SP>>, <<NL>>},
        path \in {PathAbsolute, PathUpward, PathBelow, PathDotted, <<>>},
        trail \in {<<>>, <<NL>>, <<SP, NL>>, <<NL, "x">>}}

DotGitEntries ==
    DotGitFiles
    \cup {DotGitEntry(w, kind, statFails, readFails, <<>>, "gitdir:", <<SP>>, PathAbsolute, <<NL>>) :
            w \in {WorktreeOne, WorktreeNested},
            kind \in {"absent", "directory", "file"},
            statFails \in BOOLEAN,
            readFails \in BOOLEAN}

\* ------------------------------------------------------- specifications
ConcurrentArgs ==
    {CreateArgs(n, b, NoArg, NoFolder) : n \in Names, b \in {NoArg, "b1"}}
    \cup {RemoveArgs(DefaultPath("n1"))}

SingleArgs ==
    {CreateArgs("n1", b, bb, f) :
        b \in {NoArg, "b1"}, bb \in {NoArg, EmptyText, "dev"},
        f \in {NoFolder, FolderRel, FolderAbs}}
    \cup {RemoveArgs(DefaultPath("n1"))}

\* one step of call c
CallStep(c) ==
    \/ Enter(c)
    \/ Mkdir(c)
    \/ Probe(c)
    \/ GitInit(c)
    \/ Cleanup(c)
    \/ HasCommits(c)
    \/ AddAll(c)
    \/ InitialCommit(c)
    \/ GetOrigin(c)
    \/ GetUpstream(c)
    \/ Fetch(c)
    \/ SymbolicRef(c)
    \/ Candidate(c)
    \/ AbbrevRef(c)
    \/ VerifyBase(c)
    \/ ShowRefLocal(c)
    \/ BranchCheck(c)
    \/ RevParseBase(c)
    \/ WorktreeAdd(c)
    \/ RemoveWorktreePath(c)

Environment == \E r \in Remotes, b \in RemoteBranches : RemotePush(r, b)

\* no listing has been asked for
ListingInit ==
    /\ porcelain = <<>>
    /\ parsed = NotParsed
    /\ dpc = "idle"
    /\ list = <<>>
    /\ dloc = NewLocals(1)
    /\ detailed = <<>>
    /\ dlog = <<>>

Init == InitWith(ConcurrentRepositories) /\ WatcherInit /\ ForkInit /\ GitDirInit /\ ListingInit

Next ==
    \/ \E c \in Calls, a \in ConcurrentArgs : Invoke(c, a)
    \/ \E c \in Calls : CallStep(c)
    \/ Environment

Spec == Init /\ [][Next]_vars

\* the runs of one call at a time, over every repository and argument
InitSingle == InitWith(SingleRepositories) /\ WatcherInit /\ ForkInit /\ GitDirInit /\ ListingInit

NextSingle ==
    \/ \E a \in SingleArgs : Invoke(1, a)
    \/ CallStep(1)

SpecSingle == InitSingle /\ [][NextSingle]_vars

\* removeWorktreePath alone, called with and without a third argument, over
\* every repository
ThirdArguments == {NoArg, "true", "false"}

RemoveCallArgs ==
    {RemoveArgsWith(DefaultPath(n), third) : n \in Names, third \in ThirdArguments}

NextRemove ==
    \/ \E a \in RemoveCallArgs : Invoke(1, a)
    \/ Enter(1)
    \/ RemoveWorktreePath(1)

SpecRemove == InitSingle /\ [][NextRemove]_vars

\* getProjectMainBranch alone, over every repository
NextMainBranch == CallMainBranch(1) \/ ShowCurrent(1)

SpecMainBranch == InitSingle /\ [][NextMainBranch]_vars

\* the concurrent runs with the event loop's guarantee that a call that can
\* resume does resume
Progress == \E c \in Calls : CallStep(c)

FairSpec == Spec /\ WF_vars(Progress)

\* the file watcher alone, over a repository nobody works on
IdleRepository == Repository("main", NoArg, NoUrl, NoUrl, {}, Null)

InitWatcher == InitWith({IdleRepository}) /\ WatcherInit /\ ForkInit /\ GitDirInit /\ ListingInit

\* listWorktrees alone, over every output of up to MaxLines lines
InitParse ==
    /\ InitWith({IdleRepository})
    /\ WatcherInit /\ ForkInit /\ GitDirInit
    /\ porcelain \in LinesUpTo(MaxLines)
    /\ parsed = NotParsed
    /\ dpc = "idle"
    /\ list = <<>>
    /\ dloc = NewLocals(1)
    /\ detailed = <<>>
    /\ dlog = <<>>

SpecParse == InitParse /\ [][ListWorktrees]_vars

\* listWorktreesDetailed, over the listings and every outcome of its steps
InitDetailed ==
    /\ InitWith({IdleRepository})
    /\ WatcherInit /\ ForkInit /\ GitDirInit
    /\ porcelain \in DetailedListings
    /\ parsed = NotParsed
    /\ dpc = "idle"
    /\ list = <<>>
    /\ dloc = NewLocals(1)
    /\ detailed = <<>>
    /\ dlog = <<>>

SpecDetailed == InitDetailed /\ [][DetailedNext]_vars

\* isForkOfUpstream alone, over every pair of described URLs
InitFork ==
    /\ InitWith({IdleRepository})
    /\ WatcherInit
    /\ ListingInit
    /\ remoteUrls \in UrlDescriptions \X UrlDescriptions
    /\ forkResult = NotAsked
    /\ GitDirInit

SpecFork == InitFork /\ [][CallIsForkOfUpstream]_vars

\* resolveGitDir alone, over every .git entry of the runs
InitGitDir ==
    /\ InitWith({IdleRepository})
    /\ WatcherInit /\ ForkInit
    /\ ListingInit
    /\ dotGitEntry \in DotGitEntries
    /\ gitDir = NotResolved

SpecGitDir == InitGitDir /\ [][CallResolveGitDir]_vars

\* ---- startWatching over what can be found at <worktreePath>/.git and over
\* the metadata watches fs.watch accepts
PathTokens(worktreePath) == IF worktreePath = "/w1" THEN WorktreeOne ELSE <<"/", "w2">>

StartEntries ==
    {DotGitEntry(<<>>, kind, FALSE, FALSE, <<>>, "gitdir:", <<SP>>, path, <<NL>>) :
        kind \in {"absent", "directory", "file"}, path \in {PathAbsolute, <<>>}}

\* the metadata watches that open: none when resolveGitDir returns null,
\* otherwise those fs.watch accepts
MetadataOutcomes(worktreePath) ==
    UNION {IF resolveGitDir(PathTokens(worktreePath), entry).isNull THEN {{}}
           ELSE {{}, {GitDirTarget}, Range(MetadataTargets)} : entry \in StartEntries}

\* mutant: a session without metadata watches is not recorded
StartRequiringMetadata(sessionId, worktreePath) ==
    \E watchable \in MetadataOutcomes(worktreePath) :
        StartOpening(sessionId, worktreePath, TRUE, watchable, TRUE)

StartWatchingAt(sessionId, worktreePath) ==
    \E watchable \in MetadataOutcomes(worktreePath) :
        StartOpening(sessionId, worktreePath, TRUE, watchable, FALSE)

StartNext ==
    \/ \E p \in WorktreePaths : StartWatchingAt("s1", p)
    \/ \E h \in Handles, f \in EventFilenames : WorktreeEvent(h, f)
    \/ \E h \in Handles : GitMetadataEvent(h)
    \/ TimerElapses("s1")
    \/ TimePasses

SpecStart == InitWatcher /\ [][StartNext]_vars

\* one operation per run: createWorktree, removeWorktreePath,
\* getProjectMainBranch, listWorktrees or listWorktreesDetailed
NoCall == \A c \in Calls : pc[c] = "idle"
NoListing == dpc = "idle" /\ ~parsed.done

InitOne == InitSingle \/ InitDetailed

NextOne ==
    \/ NoListing /\ NextSingle
    \/ NoListing /\ (CallMainBranch(1) \/ ShowCurrent(1))
    \/ NoCall /\ ~parsed.done /\ DetailedNext
    \/ NoCall /\ dpc = "idle" /\ ListWorktrees

SpecOne == InitOne /\ [][NextOne]_vars

\* the shortstat step alone, over every output of git diff --shortstat
InitShortstat ==
    /\ InitWith({IdleRepository})
    /\ WatcherInit /\ ForkInit /\ GitDirInit
    /\ porcelain \in DetailedListings
    /\ parsed = NotParsed
    /\ dpc = "shortstat"
    /\ list = listWorktrees(PorcelainText(porcelain))
    /\ list # <<>>
    /\ \E hasChanges \in BOOLEAN : dloc = [NewLocals(1) EXCEPT !.hasChanges = hasChanges]
    /\ detailed = <<>>
    /\ dlog = <<[NoOutcomes EXCEPT !.status = TextOutcome(TRUE, IF dloc.hasChanges THEN "dirty" ELSE "clean")]>>

SpecShortstat == InitShortstat /\ [][ShortstatReturns(AllShortstatOutcomes)]_vars

SpecWatcher == InitWatcher /\ [][WatcherNext]_vars

\* ---- one session whose worktree watcher reports every kind of filename
FilterFilenames ==
    {NoFilename, FileSource, FileDsStore, FileGitIndex, FileBackup,
     FileNestedModules, FileSwap, FileLock, FileAutosave, FileThumbsUpper,
     FileThumbs, FileSwo, FileNestedDsStore, FileNestedGit, FileGitignore,
     FileSuffixedDsStore, FileHashOpen, FileHashDir}

FilterNext ==
    \/ StartWatching("s1", "/w1")
    \/ StopWatching("s1")
    \/ \E h \in Handles, f \in FilterFilenames : WorktreeEvent(h, f)
    \/ \E h \in Handles : GitMetadataEvent(h)
    \/ TimerElapses("s1")
    \/ TimePasses

SpecFilter == InitWatcher /\ [][FilterNext]_vars

\* ---- one session on a clock that does not stop: once the clock has reached
\* MaxTime, a tick moves every time the watcher holds back by Tick instead
Earlier(t) == IF t >= Tick THEN t - Tick ELSE 0

TimeSlides ==
    /\ \A s \in DOMAIN refreshDebounceTimers : refreshDebounceTimers[s] > now
    /\ now + Tick > MaxTime
    /\ refreshDebounceTimers' =
            [s \in DOMAIN refreshDebounceTimers |-> Earlier(refreshDebounceTimers[s])]
    /\ watchedSessions' =
            [s \in DOMAIN watchedSessions |->
                [watchedSessions[s] EXCEPT !.lastModified = Earlier(@)]]
    /\ hist' = [s \in Sessions |->
                    [hist[s] EXCEPT !.lastAt = Earlier(@), !.metaDue = Earlier(@),
                                    !.cancelled = Earlier(@)]]
    /\ input' = Input("time", "")
    /\ emitted' = <<>>
    /\ UNCHANGED <<now, handles, throws>>
    /\ WatcherFrame

LiveNext ==
    \/ StartWatching("s1", "/w1")
    \/ StopWatching("s1")
    \/ \E h \in Handles, f \in EventFilenames : WorktreeEvent(h, f)
    \/ \E h \in Handles : GitMetadataEvent(h)
    \/ TimerElapses("s1")
    \/ TimePasses
    \/ TimeSlides

\* a timer that is due fires, and time goes on
FairSpecWatcher ==
    /\ InitWatcher /\ [][LiveNext]_vars
    /\ WF_vars(TimerElapses("s1"))
    /\ WF_vars(TimePasses \/ TimeSlides)

\* ================================================================ claims
IsCreate(c) == args[c].op = "create"
IsRemove(c) == args[c].op = "remove"

\* the callback of c has started
Entered(c) == pc[c] \notin {"idle", "waiting"}

\* c is in flight: its callback has started and its promise has not settled
InFlight(c) == Entered(c) /\ ~Settled(pc[c])

\* two createWorktree calls with the same projectPath and the same name
SameCreate(c, d) ==
    /\ c # d /\ IsCreate(c) /\ IsCreate(d)
    /\ args[c].projectPath = args[d].projectPath
    /\ args[c].name = args[d].name

\* two removeWorktreePath calls with the same worktreePath
SameRemove(c, d) ==
    /\ c # d /\ IsRemove(c) /\ IsRemove(d)
    /\ args[c].worktreePath = args[d].worktreePath

\* the branch a createWorktree call creates: branch, or name when none is given
BranchArg(a) == IF a.branch \in {NoArg, EmptyText} THEN a.name ELSE a.branch

\* the worktree path an invoked call mutates, from its arguments
StorageDir(a) ==
    IF a.worktreeFolder = NoFolder THEN ProjectPath \o <<"/", "worktrees">>
    ELSE IF a.worktreeFolder = FolderAbs THEN FolderAbs
    ELSE ProjectPath \o <<"/">> \o a.worktreeFolder

TargetPath(a) ==
    IF a.op = "create" THEN StorageDir(a) \o <<"/", a.name>> ELSE a.worktreePath

Returned(c) == result[c].kind = "returned"
Thrown(c) == result[c].kind = "thrown"

\* C1: two createWorktree calls with the same projectPath and name
\* are never in flight together, and at most one of them returns successfully
\* for the shared worktree path.
C1_AsStated ==
    \A c, d \in Calls :
        SameCreate(c, d) =>
            /\ ~(InFlight(c) /\ InFlight(d))
            /\ (TargetPath(args[c]) = TargetPath(args[d])
                    => ~(Returned(c) /\ Returned(d)))

\* two overlapping calls for the same name: one waits while the other is about
\* to run git worktree add
C1_Witness ==
    \E c, d \in Calls :
        /\ SameCreate(c, d)
        /\ pc[c] = "worktreeAdd"
        /\ pc[d] = "waiting"

\* C2 (as stated): for every worktree path W at most one call that mutates W
\* (createWorktree targeting W, removeWorktreePath on W) is in flight.
C2_AsStated ==
    \A c, d \in Calls :
        (c # d /\ pc[c] # "idle" /\ pc[d] # "idle"
            /\ TargetPath(args[c]) = TargetPath(args[d]))
        => ~(InFlight(c) /\ InFlight(d))

\* C2 (amended): at most one createWorktree per (projectPath, name) and at most
\* one removeWorktreePath per worktreePath is in flight at any time.
C2_OneInFlightPerKey ==
    \A c, d \in Calls :
        (SameCreate(c, d) \/ SameRemove(c, d)) => ~(InFlight(c) /\ InFlight(d))

\* a removeWorktreePath waits while another one on the same path is in flight
C2_Witness ==
    \E c, d \in Calls : SameRemove(c, d) /\ InFlight(c) /\ pc[d] = "waiting"

\* C3: a call that has settled (returned or thrown at any step) holds no
\* lock, and under fairness every call waiting for a lock starts its body.
C3_LockReleased ==
    /\ [](\A c \in Calls : Settled(pc[c]) => Pos(lockQueue, c) = 0)
    /\ \A c \in Calls : (pc[c] = "waiting") ~> Entered(c)

\* a call threw and a later call with the same key is running its body
C3_Witness ==
    \E c, d \in Calls :
        /\ c < d
        /\ pc[c] # "idle" /\ pc[d] # "idle"
        /\ KeyOf(args[c]) = KeyOf(args[d])
        /\ Thrown(c)
        /\ InFlight(d)

\* C4: calls waiting for the same lock (createWorktree with the same
\* projectPath and name, removeWorktreePath with the same path) start their
\* body in the order they asked; calls are numbered in the order they asked.
C4_FifoOrder ==
    \A c, d \in Calls :
        (c < d /\ (SameCreate(c, d) \/ SameRemove(c, d)) /\ Entered(d)) => Entered(c)

\* the earlier of two same-key calls runs while the later one waits
C4_Witness ==
    \E c, d \in Calls :
        /\ c < d
        /\ SameCreate(c, d)
        /\ pc[c] = "mkdir"
        /\ pc[d] = "waiting"

\* the git invocations call c has made so far
Log(c) == {glog[c][i] : i \in 1..Len(glog[c])}

\* C5: a removeWorktreePath call to which git answers "is not a working tree"
\* (the path is not, or is no longer, a registered worktree) completes without
\* throwing.
C5_RemoveIdempotent ==
    \A c \in Calls :
        (IsRemove(c) /\ Settled(pc[c])
            /\ \E e \in Log(c) : e.stderr = NotAWorkingTree)
        => Returned(c)

\* two calls in sequence on one path: the first removed the worktree, git told
\* the second that the path is not a working tree, and both returned
C5_Witness ==
    \E c, d \in Calls :
        /\ c < d /\ SameRemove(c, d)
        /\ Returned(c) /\ \E e \in Log(c) : e.exitCode = 0
        /\ Returned(d) /\ \E e \in Log(d) : e.stderr = NotAWorkingTree

\* the lookup of remote r by call c succeeded with a non-empty URL
UrlPresent(c, r) ==
    /\ \E e \in Log(c) :
            e.cmd.op = "remote get-url" /\ e.cmd.remote = r /\ e.exitCode = 0
    /\ Trim(cfg.url[r]) # <<>>

\* the GitHub owner and repository each URL of the runs names
GitHubUrls == {UrlForkSsh, UrlRealSsh, UrlRealHttps, UrlOtherRepo}
OwnerOf(url) == IF url = UrlForkSsh THEN "forkOwner" ELSE "realOwner"
RepoOf(url) == IF url = UrlOtherRepo THEN "other" ELSE "repo"

\* the same repository under different owners
SameRepoDifferentOwner(originUrl, upstreamUrl) ==
    /\ originUrl \in GitHubUrls /\ upstreamUrl \in GitHubUrls
    /\ RepoOf(originUrl) = RepoOf(upstreamUrl)
    /\ OwnerOf(originUrl) # OwnerOf(upstreamUrl)

\* the table of the base remote
TableRemote(c) ==
    IF UrlPresent(c, "origin") /\ UrlPresent(c, "upstream")
        /\ SameRepoDifferentOwner(cfg.url["origin"], cfg.url["upstream"])
    THEN "upstream"
    ELSE IF UrlPresent(c, "origin") THEN "origin"
    ELSE IF UrlPresent(c, "upstream") THEN "upstream"
    ELSE Null

\* C6: once createWorktree has looked up both remote URLs, the base remote is
\* the one the table gives (both present and fork: upstream; else origin if
\* present; else upstream if present; else none), a failed or empty lookup
\* counting as absent, and it fetches no other remote.
C6_BaseRemoteTable ==
    \A c \in Calls :
        (IsCreate(c)
            /\ \E e \in Log(c) : e.cmd.op = "remote get-url" /\ e.cmd.remote = "upstream")
        => /\ loc[c].baseRemote = TableRemote(c)
           /\ \A e \in Log(c) : e.cmd.op = "fetch" => e.cmd.remote = TableRemote(c)

\* origin is a fork of upstream and the call has fetched upstream
C6_Witness ==
    \E c \in Calls :
        /\ IsCreate(c)
        /\ cfg.url["origin"] = UrlForkSsh /\ cfg.url["upstream"] = UrlRealSsh
        /\ \E e \in Log(c) :
                e.cmd.op = "fetch" /\ e.cmd.remote = "upstream" /\ e.exitCode = 0

\* call c ran the git command of this step for this branch and it failed
StepFailed(c, step, branch) ==
    \E e \in Log(c) : e.step = step /\ e.cmd.branch = branch /\ e.exitCode # 0

\* the symbolic HEAD of the chosen remote, when the call could read it
SymbolicHead(c) ==
    IF loc[c].baseRemote # Null
        /\ cfg.rhead[loc[c].baseRemote] # Null
        /\ ~StepFailed(c, "symbolicRef", None)
    THEN cfg.rhead[loc[c].baseRemote]
    ELSE NoArg

\* branch is a ref under the chosen remote, and the call could see it
UnderRemote(c, branch) ==
    /\ loc[c].baseRemote # Null
    /\ RemoteRefOf(git, loc[c].baseRemote, branch) # NoCommit
    /\ ~StepFailed(c, "candidate", branch)

\* the local current branch, when the call could read it
CurrentBranch(c) ==
    IF HeadCommit(git) # NoCommit /\ ~StepFailed(c, "abbrevRef", None)
    THEN git.cur
    ELSE NoArg

\* the first available base branch name, in the order of the resolution
FirstAvailable(c) ==
    IF Truthy(args[c].baseBranch) THEN args[c].baseBranch
    ELSE IF Truthy(SymbolicHead(c)) THEN SymbolicHead(c)
    ELSE IF UnderRemote(c, "main") THEN "main"
    ELSE IF UnderRemote(c, "master") THEN "master"
    ELSE IF Truthy(CurrentBranch(c)) THEN CurrentBranch(c)
    ELSE "main"

\* C7: the base branch name createWorktree resolves is the first available
\* of: the baseBranch argument, the chosen remote's symbolic HEAD, the first
\* of main, master that is a ref under the chosen remote, the local current
\* branch, the literal "main"; and it is never empty.
C7_BaseBranchOrder ==
    \A c \in Calls :
        (IsCreate(c) /\ loc[c].actualBaseBranch # NoArg)
        => /\ loc[c].actualBaseBranch = FirstAvailable(c)
           /\ Truthy(loc[c].actualBaseBranch)

\* no baseBranch argument, no symbolic HEAD, no main under the remote: the
\* call resolved master
C7_Witness ==
    \E c \in Calls :
        /\ IsCreate(c) /\ ~Truthy(args[c].baseBranch)
        /\ StepFailed(c, "symbolicRef", None)
        /\ StepFailed(c, "candidate", "main")
        /\ loc[c].actualBaseBranch = "master"

\* C8: when the lookup of refs/heads/<branchName> exits with 0 the call
\* rejects with the BranchAlreadyExists error and never runs git worktree add;
\* when it exits with another status the call does not reject with that
\* error, and if the lookup ran the branch did not exist.
C8_BranchExistsRejects ==
    \A c \in Calls :
        IsCreate(c) =>
            \A e \in Log(c) :
                e.step = "branchCheck" =>
                    /\ e.cmd.branch = BranchArg(args[c])
                    /\ e.exitCode = 0 =>
                            /\ Thrown(c)
                            /\ result[c].error = BranchAlreadyExists
                            /\ ~\E f \in Log(c) : f.cmd.op = "worktree add"
                    /\ e.exitCode # 0 =>
                            /\ result[c].error # BranchAlreadyExists
                            /\ (e.stderr # Faulted(git).stderr /\ ~Returned(c))
                                    => HeadsOf(git, BranchArg(args[c])) = NoCommit

\* the branch passed as the branch argument existed and the call rejected
C8_Witness ==
    \E c \in Calls :
        /\ IsCreate(c) /\ args[c].branch = "b1"
        /\ HeadsOf(git, "b1") # NoCommit
        /\ Thrown(c) /\ result[c].error = BranchAlreadyExists

\* C9: the baseCommit a successful createWorktree returns is the commit at
\* which git worktree add created the new branch.
C9_BaseCommitPinned ==
    \A c \in Calls :
        (IsCreate(c) /\ Returned(c))
        => HeadsOf(git, result[c].value.branchName) = result[c].value.baseCommit

\* C10: a successful createWorktree returns branchName equal to the branch
\* argument, or to name when none is given, worktreePath equal to the storage
\* directory joined with name, and baseBranch equal to the resolved base
\* branch name, which is the baseBranch argument whenever one was given.
C10_ReturnValue ==
    \A c \in Calls :
        (IsCreate(c) /\ Returned(c))
        => /\ result[c].value.branchName = BranchArg(args[c])
           /\ result[c].value.worktreePath = TargetPath(args[c])
           /\ result[c].value.baseBranch = FirstAvailable(c)
           /\ Truthy(args[c].baseBranch)
                => result[c].value.baseBranch = args[c].baseBranch

\* a call with a branch argument and an absolute worktree folder returned a
\* base branch name it resolved itself
C10_Witness ==
    \E c \in Calls :
        /\ IsCreate(c) /\ Returned(c)
        /\ args[c].branch = "b1" /\ args[c].worktreeFolder = FolderAbs
        /\ ~Truthy(args[c].baseBranch)
        /\ result[c].value.baseBranch = "master"

\* ---------------------------------------------- claims of the file watcher
Watched(s) == s \in DOMAIN watchedSessions
TimerPending(s) == s \in DOMAIN refreshDebounceTimers

\* the step is a timer callback of session s that emitted needs-refresh
Signals(s) == input'.op = "timer" /\ input'.sessionId = s /\ emitted' # <<>>

\* the step is a call or callback named op for session s
StepOf(op, s) == input'.op = op /\ input'.sessionId = s

MatchingFilenames == {FileDsStore}

\* C12: a worktree-content event whose filename matches the ignore filter
\* changes nothing in the watcher: no record changes (pendingRefresh and
\* lastModified stay), no timer is started, restarted or cancelled, no handle
\* changes and nothing is emitted.
C12_IgnoredChangesNothing ==
    [][\A s \in Sessions :
        (StepOf("worktree event", s) /\ input'.filename \in MatchingFilenames)
        => /\ UNCHANGED <<watchedSessions, refreshDebounceTimers, handles, now>>
           /\ emitted' = <<>>]_vars

\* .DS_Store was reported for a session whose timer is pending
C12_Witness ==
    \E s \in Sessions :
        /\ input = EventInput("worktree event", s, FileDsStore)
        /\ Watched(s) /\ TimerPending(s)
        /\ watchedSessions[s].lastModified < now
        /\ refreshDebounceTimers[s] < now + WORKTREE_DEBOUNCE_MS

\* C13: the 50 ms git-metadata timer is independent of the 200 ms worktree
\* timer: a git-metadata event of a watched session is signalled within 50 ms
\* of the last metadata event, and worktree-content events arriving in that
\* window do not postpone the signal.
C13_MetadataWithin50 ==
    \A s \in Sessions :
        (Watched(s) /\ hist[s].metaDue # 0) => now <= hist[s].metaDue

\* C14: after stopWatching(s) or stopAll() no needs-refresh is emitted for
\* the stopped session s, also when a timer of s was pending, until
\* startWatching(s, ...) is called again and a new event of s is accepted: a
\* session that is not watched has no timer, and a callback signals s only
\* while s is watched and an event of s was accepted since s was last started
\* or stopped.
C14_NoSignalAfterStop ==
    /\ [](\A s \in Sessions : ~Watched(s) => ~TimerPending(s))
    /\ [][\A s \in Sessions :
            Signals(s) => (Watched(s) /\ hist[s].events > 0)]_vars

\* the session was stopped while its timer was pending, and the deadline of
\* that timer has passed
C14_Witness ==
    \E s \in Sessions :
        /\ ~Watched(s)
        /\ hist[s].cancelled # 0
        /\ now > hist[s].cancelled

\* what the watcher holds for session s: its record, its timer, its handles
Held(s) ==
    <<IF Watched(s) THEN <<watchedSessions[s]>> ELSE <<>>,
      IF TimerPending(s) THEN <<refreshDebounceTimers[s]>> ELSE <<>>,
      [h \in {x \in Handles : x.sessionId = s} |-> handles[h]]>>

\* C15: stopWatching(s) on a session with no active watch, and a second
\* stopWatching(s) or stopAll() after a first, is a no-op; stopWatching(s)
\* leaves the handles, pending flags and timers of every other session
\* unchanged; after stopAll() no session is watched, no timer is outstanding
\* and no handle is open.
C15_StopIdempotent ==
    [][/\ \A s \in Sessions :
            /\ (StepOf("stopWatching unwatched", s) \/ StepOf("stopWatching", s))
                => /\ \A t \in Sessions \ {s} : Held(t)' = Held(t)
                   /\ ~Watched(s) => Held(s)' = Held(s)
                   /\ ~Watched(s)' /\ ~TimerPending(s)'
                   /\ emitted' = <<>>
       /\ input'.op = "stopAll"
            => /\ watchedSessions' = EmptyMap
               /\ refreshDebounceTimers' = EmptyMap
               /\ \A h \in Handles : handles'[h] = 0
               /\ watchedSessions = EmptyMap
                    => UNCHANGED <<watchedSessions, refreshDebounceTimers, handles>>
               /\ emitted' = <<>>]_vars

\* stopWatching has just run for a session that was not watched, after a stop
\* that cancelled its timer, while the other session is watched with its
\* timer pending
C15_Witness ==
    \E s \in Sessions, t \in Sessions :
        /\ s # t
        /\ input = Input("stopWatching unwatched", s)
        /\ hist[s].cancelled # 0
        /\ Watched(t) /\ TimerPending(t)
        /\ \E h \in Handles : h.sessionId = t /\ handles[h] = 1

\* the step is a startWatching(s, ...) that opened its worktree watch
Starts(s) == StepOf("startWatching", s) \/ StepOf("startWatching watched", s)

\* C16: there is at most one WatchedSession per sessionId and every open
\* watch handle belongs to the current WatchedSession of its session;
\* startWatching(s, p) on an already watched s closes the handles and cancels
\* the timer of the previous watch, and the new record starts Idle
\* (pendingRefresh false, no timer).
C16_OneWatchPerSession ==
    /\ [](/\ \A s \in DOMAIN watchedSessions :
                /\ s \in Sessions
                /\ watchedSessions[s].sessionId = s
                /\ \A h \in OwnedBy(watchedSessions[s]) :
                        /\ h.sessionId = s
                        /\ h.worktreePath = watchedSessions[s].worktreePath
                        /\ handles[h] = 1
           /\ \A h \in Handles :
                handles[h] > 0
                => /\ Watched(h.sessionId)
                   /\ h \in OwnedBy(watchedSessions[h.sessionId]))
    /\ [][\A s \in Sessions :
            /\ Starts(s)
                => /\ Watched(s)'
                   /\ ~watchedSessions'[s].pendingRefresh
                   /\ ~TimerPending(s)'
                   /\ watchedSessions'[s].lastModified = now
                   /\ \A t \in Sessions \ {s} : Held(t)' = Held(t)
            /\ StepOf("startWatching failed", s)
                => /\ ~Watched(s)' /\ ~TimerPending(s)'
                   /\ \A t \in Sessions \ {s} : Held(t)' = Held(t)]_vars

\* startWatching has just run at /w2 for a session that was already watched:
\* the handles of its record are open, its handles at /w1 are closed
C16_Witness ==
    \E s \in Sessions :
        /\ input = Input("startWatching watched", s)
        /\ watchedSessions[s].worktreePath = "/w2"
        /\ watchedSessions[s].lastModified > 0
        /\ \A h \in Handles :
                (h.sessionId = s /\ h.worktreePath = "/w1") => handles[h] = 0
        /\ \A h \in OwnedBy(watchedSessions[s]) : handles[h] = 1

\* ------------------------------------------------- claims of the listings
\* the positions of the worktree lines, and the k-th of them
WorktreeLines == {i \in 1..Len(porcelain) : porcelain[i].kind = "worktree"}
WorktreeLine(k) ==
    CHOOSE i \in WorktreeLines : Cardinality({j \in WorktreeLines : j <= i}) = k

\* the lines that follow line i up to the next worktree line, and those of
\* them that come before any blank line
UpToNextWorktree(i) ==
    {j \in (i + 1)..Len(porcelain) :
        \A k \in (i + 1)..j : porcelain[k].kind # "worktree"}
UpToBlank(i) ==
    {j \in UpToNextWorktree(i) : \A k \in (i + 1)..j : porcelain[k].kind # "blank"}

\* what git printed in the lines js: whether a line of the kind occurs, and
\* the value of the lines of the kind
Occurs(kind, js) == \E j \in js : porcelain[j].kind = kind
ValueOf(kind, js, none) ==
    IF Occurs(kind, js)
    THEN porcelain[CHOOSE j \in js : porcelain[j].kind = kind].value
    ELSE none

\* the entry git described by a worktree line and the lines js
Described(i, js) ==
    [path |-> porcelain[i].value,
     head |-> ValueOf("HEAD", js, <<>>),
     branch |-> ValueOf("branch", js, NoBranch),
     detached |-> Occurs("detached", js),
     locked |-> Occurs("locked", js),
     prunable |-> Occurs("prunable", js)]

\* C17: listWorktrees returns exactly one entry per worktree line, in the
\* order of those lines; each entry carries the path, the HEAD sha, the branch
\* without refs/heads/ (null without a branch line) and the detached, locked
\* and prunable flags of the lines of its record; empty output yields the
\* empty list. (Stated for the records in which no line other than blank
\* lines follows a blank line; the others are the subject of C18.)
C17_OneEntryPerWorktreeLine ==
    parsed.done
    => /\ Len(parsed.out) = Cardinality(WorktreeLines)
       /\ \A k \in 1..Len(parsed.out) :
            /\ parsed.out[k].path = porcelain[WorktreeLine(k)].value
            /\ (\A j \in UpToNextWorktree(WorktreeLine(k)) \ UpToBlank(WorktreeLine(k)) :
                    porcelain[j].kind = "blank")
                => parsed.out[k] =
                        Described(WorktreeLine(k), UpToBlank(WorktreeLine(k)))

\* two entries were returned: /a on branch main with its HEAD, then /b
\* detached and locked without a branch
C17_Witness ==
    /\ parsed.done
    /\ Len(parsed.out) = 2
    /\ parsed.out[1].path = <<"/a">> /\ parsed.out[1].branch = <<"main">>
    /\ ~parsed.out[1].detached
    /\ parsed.out[2].path = <<"/b">> /\ parsed.out[2].branch = NoBranch
    /\ parsed.out[2].detached

\* C18: a blank line ends the current record, and the lines of a record
\* without a worktree line are discarded: they produce no entry and change no
\* field of the entry of another record.
C18_BlankEndsRecord ==
    parsed.done
    => /\ Len(parsed.out) = Cardinality(WorktreeLines)
       /\ \A k \in 1..Len(parsed.out) :
            parsed.out[k] = Described(WorktreeLine(k), UpToBlank(WorktreeLine(k)))

\* the counts git printed in the shortstat step of the current iteration
Printed == dlog[dloc.i].shortstat

\* C19: the shortstat parse yields filesChanged, additions and deletions
\* equal to the numbers of the "<n> file(s) changed", "<n> insertion(s)(+)"
\* and "<n> deletion(s)(-)" groups of the output, 0 for every absent group;
\* empty output, or failure of the command, yields three zeros.
C19_ShortstatParse ==
    dpc = "log"
    => /\ dloc.filesChanged = (IF Printed.ok THEN Printed.files ELSE 0)
       /\ dloc.additions = (IF Printed.ok THEN Printed.ins ELSE 0)
       /\ dloc.deletions = (IF Printed.ok THEN Printed.del ELSE 0)

\* " 1 file changed, 10 deletions(-)" was parsed
C19_Witness ==
    /\ dpc = "log"
    /\ Printed = ShortstatOutcome(TRUE, 1, 0, MaxCount)
    /\ dloc.filesChanged = 1 /\ dloc.additions = 0 /\ dloc.deletions = MaxCount

\* the detailed entry of the k-th listed worktree, from the listing and the
\* outcomes of its four steps
BestEffort(k) ==
    LET entry == list[k]
        o == dlog[k]
    IN  [path |-> entry.path, head |-> entry.head, branch |-> entry.branch,
         detached |-> entry.detached, locked |-> entry.locked,
         prunable |-> entry.prunable,
         isMain |-> entry.path = <<"/a">>,
         hasChanges |-> o.status.ok /\ o.status.kind = "dirty",
         createdAt |-> IF o.stat.ok THEN CreatedAt(o.stat) ELSE Null,
         lastCommitAt |-> IF o.log.ok /\ o.log.kind = "dated" THEN CommitDate ELSE Null,
         additions |-> IF o.shortstat.ok THEN o.shortstat.ins ELSE 0,
         deletions |-> IF o.shortstat.ok THEN o.shortstat.del ELSE 0,
         filesChanged |-> IF o.shortstat.ok THEN o.shortstat.files ELSE 0]

\* C20: when the listing succeeds, listWorktreesDetailed returns exactly one
\* detailed entry per listed worktree, in listing order, for every
\* combination of failures of the per-worktree steps: a failed step sets only
\* its own field to its fallback and changes neither the other fields of the
\* entry nor any other entry; the call throws only when the listing fails.
C20_BestEffortPerStep ==
    /\ Len(detailed) <= Len(list)
    /\ \A k \in 1..Len(detailed) : detailed[k] = BestEffort(k)
    /\ dpc = "returned" => Len(detailed) = Len(list)
    /\ dpc = "threw" => (list = <<>> /\ detailed = <<>>)

\* the call returned two entries: every step of the first failed, every
\* step of the second succeeded
C20_Witness ==
    /\ dpc = "returned"
    /\ Len(detailed) = 2
    /\ ~dlog[1].stat.ok /\ ~dlog[1].status.ok
    /\ ~dlog[1].shortstat.ok /\ ~dlog[1].log.ok
    /\ detailed[1].createdAt = Null /\ detailed[1].filesChanged = 0
    /\ dlog[2].stat.ok /\ dlog[2].status.ok /\ dlog[2].shortstat.ok /\ dlog[2].log.ok
    /\ detailed[2].hasChanges /\ detailed[2].filesChanged = 2
    /\ detailed[2].lastCommitAt = CommitDate
    /\ detailed[1].isMain /\ ~detailed[2].isMain

\* ------------------------------------------------- getProjectMainBranch
IsMainBranch(c) == args[c].op = "mainBranch"

\* the text contains the path
NamesPath(text, path) ==
    \E i \in 1..Len(text) :
        i + Len(path) - 1 <= Len(text) /\ SubSeq(text, i, i + Len(path) - 1) = path

\* the printed text without the white space around it, from the outputs git
\* has for the current branch
Branches == LocalBranches

Bare(stdout) ==
    IF \E b \in Branches : Contains(stdout, b)
    THEN <<CHOOSE b \in Branches : Contains(stdout, b)>>
    ELSE <<>>

\* C21: getProjectMainBranch returns the output of git branch --show-current
\* without the white space around it when that is not empty; when the output
\* is empty or only white space it throws the DetachedHead error, whose
\* message names the project path and which is not the error of a failed git
\* command; a failed command throws that other error.
C21_MainBranchOrDetachedHead ==
    \A c \in Calls :
        (IsMainBranch(c) /\ Settled(pc[c])) =>
            \A e \in Log(c) :
                /\ (e.exitCode = 0 /\ Bare(e.stdout) # <<>>)
                        => Returned(c) /\ result[c].value = Bare(e.stdout)
                /\ (e.exitCode = 0 /\ Bare(e.stdout) = <<>>)
                        => /\ Thrown(c)
                           /\ result[c].error = DetachedHead
                           /\ result[c].error # GitCommandFailed
                           /\ NamesPath(result[c].value, args[c].projectPath)
                /\ e.exitCode # 0
                        => Thrown(c) /\ result[c].error = GitCommandFailed

\* a padded branch name was returned bare
C21_WitnessPadded ==
    \E c \in Calls :
        /\ IsMainBranch(c) /\ Returned(c)
        /\ \E e \in Log(c) : e.stdout = <<SP, SP, "dev", SP, SP, NL>>
        /\ result[c].value = <<"dev">>

\* an output of white space only made the call throw DetachedHead
C21_Witness ==
    \E c \in Calls :
        /\ IsMainBranch(c) /\ Thrown(c)
        /\ \E e \in Log(c) : e.exitCode = 0 /\ e.stdout = <<SP, SP, NL>>
        /\ result[c].error = DetachedHead
\* ---------------------------------------------------- removeWorktreePath
\* the caller asked for a forced removal: the third argument is true
ForceRequested(c) == args[c].sessionId = "true"

\* C22: removeWorktreePath(projectPath, worktreePath, force?) passes --force
\* to git worktree remove when force is requested and omits it when force is
\* not requested.
C22_ForceWhenRequested ==
    \A c \in Calls :
        IsRemove(c) =>
            \A e \in Log(c) :
                e.cmd.op = "worktree remove"
                    => (Contains(Argv(e.cmd), "--force") <=> ForceRequested(c))
\* ------------------------------------------------ who destroys a worktree
\* the paths of the registered worktrees
WorktreePathsOf(g) == {w.path : w \in g.wts}

\* this step is the git worktree remove of a removeWorktreePath call
RemoveStep == \E c \in Calls : IsRemove(c) /\ pc[c] = "remove" /\ pc'[c] # "remove"

\* C23: a registered worktree is destroyed only by removeWorktreePath: a
\* worktree that exists before a step of any other operation still exists
\* after it, also when createWorktree targets its path and is rejected with
\* BranchAlreadyExists.
C23_OnlyRemoveDestroys ==
    [][(WorktreePathsOf(git) \ WorktreePathsOf(git') # {}) => RemoveStep]_vars

\* createWorktree was rejected with BranchAlreadyExists after its cleanup had
\* removed the worktree registered at its target path
C23_DestroyedThenRejected ==
    \E c \in Calls :
        /\ IsCreate(c) /\ Thrown(c) /\ result[c].error = BranchAlreadyExists
        /\ \E e \in Log(c) :
                e.step = "cleanup" /\ e.exitCode = 0 /\ e.cmd.path = TargetPath(args[c])
        /\ ~IsWorktree(git, TargetPath(args[c]))
\* -------------------------------------------- the steps of createWorktree
\* the i-th git invocation of call c is followed by the step named step: it
\* is the next invocation, or the call is suspended at it
FollowedBy(c, i, step) ==
    IF i < Len(glog[c]) THEN glog[c][i + 1].step = step ELSE pc[c] = step

\* the i-th git invocation of call c was its last and the call threw without
\* having run git worktree add
AbortedAt(c, i) ==
    /\ i = Len(glog[c])
    /\ Thrown(c)
    /\ ~\E e \in Log(c) : e.cmd.op = "worktree add"

Succeeded(e) == e.exitCode = 0

\* C24: in createWorktree a failed rev-parse --is-inside-work-tree is
\* followed by git init, a successful one is not; a failed rev-parse HEAD is
\* followed by git add -A and then by the initial commit, whether or not the
\* staging failed; a failed git init or a failed initial commit aborts the
\* call without git worktree add.
C24_InitAndInitialCommit ==
    \A c \in Calls :
        IsCreate(c) =>
            \A i \in 1..Len(glog[c]) :
                LET e == glog[c][i]
                IN  /\ (e.step = "probe" /\ ~Succeeded(e)) => FollowedBy(c, i, "init")
                    /\ (e.step = "probe" /\ Succeeded(e)) => FollowedBy(c, i, "cleanup")
                    /\ (e.step = "init" /\ ~Succeeded(e)) => AbortedAt(c, i)
                    /\ (e.step = "init" /\ Succeeded(e)) => FollowedBy(c, i, "cleanup")
                    /\ (e.step = "hasCommits" /\ ~Succeeded(e)) => FollowedBy(c, i, "add")
                    /\ (e.step = "hasCommits" /\ Succeeded(e)) => FollowedBy(c, i, "getOrigin")
                    /\ e.step = "add" => FollowedBy(c, i, "commit")
                    /\ (e.step = "commit" /\ ~Succeeded(e)) => AbortedAt(c, i)
                    /\ (e.step = "commit" /\ Succeeded(e)) => FollowedBy(c, i, "getOrigin")
                    /\ e.step = "init" => e.cmd.op = "init"
                    /\ e.step = "add" => e.cmd.op = "add -A"
                    /\ e.step = "commit" => e.cmd.op = "commit"

\* on a directory that was no repository: git init ran, the staging failed,
\* the initial commit was made and the call returned
C24_Witness ==
    \E c \in Calls :
        /\ IsCreate(c) /\ Returned(c)
        /\ \E e \in Log(c) : e.step = "init" /\ Succeeded(e)
        /\ \E e \in Log(c) : e.step = "add" /\ ~Succeeded(e)
        /\ \E e \in Log(c) : e.step = "commit" /\ Succeeded(e)
\* the steps of createWorktree whose failure is not caught
FatalSteps == {"init", "commit", "fetch", "verifyBase", "revParseBase", "worktreeAdd"}

\* the positions of git worktree add in the log of call c
AddsOf(c) == {i \in 1..Len(glog[c]) : glog[c][i].cmd.op = "worktree add"}

\* C25: createWorktree invokes git worktree add at most once and as its last
\* git command, right after the base ref check, the branch check and the
\* resolution of baseCommit have passed in this order; when the ref under the
\* chosen remote does not resolve to a commit, or any other fatal step
\* fails, the call throws and git worktree add is never invoked.
C25_WorktreeAddLast ==
    \A c \in Calls :
        IsCreate(c) =>
            /\ Cardinality(AddsOf(c)) <= 1
            /\ \A i \in AddsOf(c) :
                /\ i = Len(glog[c])
                /\ i > 3
                /\ \/ glog[c][i - 3].step = "verifyBase" /\ Succeeded(glog[c][i - 3])
                   \/ glog[c][i - 3].step = "showRefLocal" /\ loc[c].baseRemote = Null
                /\ glog[c][i - 2].step = "branchCheck" /\ ~Succeeded(glog[c][i - 2])
                /\ glog[c][i - 1].step = "revParseBase" /\ Succeeded(glog[c][i - 1])
                /\ ~Succeeded(glog[c][i]) => Thrown(c)
            /\ \A i \in 1..Len(glog[c]) :
                /\ (glog[c][i].step \in FatalSteps \ {"worktreeAdd"}
                        /\ ~Succeeded(glog[c][i]))
                    => AbortedAt(c, i) /\ result[c].error = GitCommandFailed
                /\ (glog[c][i].step = "branchCheck" /\ Succeeded(glog[c][i]))
                    => AbortedAt(c, i)
                /\ glog[c][i].step = "verifyBase"
                    => /\ loc[c].baseRemote # Null
                       /\ glog[c][i].cmd.ref =
                            RemoteRef(loc[c].baseRemote, loc[c].mainBranchName)

\* a remote was chosen, its ref resolved, the branch was free, baseCommit
\* resolved, and git worktree add ran last
C25_Witness ==
    \E c \in Calls :
        /\ IsCreate(c) /\ Returned(c) /\ loc[c].baseRemote # Null
        /\ AddsOf(c) = {Len(glog[c])}

\* the ref under the chosen remote did not resolve and the call threw
C25_WitnessUnresolved ==
    \E c \in Calls :
        /\ IsCreate(c) /\ Thrown(c) /\ loc[c].baseRemote # Null
        /\ \E e \in Log(c) : e.step = "verifyBase" /\ e.stderr = OtherError
        /\ AddsOf(c) = {}
\* the positions of git fetch in the log of call c
FetchesOf(c) == {i \in 1..Len(glog[c]) : glog[c][i].cmd.op = "fetch"}

\* the steps that resolve the base branch and the base ref
ResolutionSteps ==
    {"symbolicRef", "candidate", "abbrevRef", "verifyBase", "showRefLocal",
     "branchCheck", "revParseBase", "worktreeAdd"}

\* C26: createWorktree fetches the chosen base remote, once, right after the
\* remote was chosen and before any step of the resolution of the base
\* branch; it fetches nothing when no remote was chosen; a failed fetch
\* aborts the call with the error of the command and without git worktree
\* add.
C26_FetchChosenRemoteOnce ==
    \A c \in Calls :
        IsCreate(c) =>
            /\ Cardinality(FetchesOf(c)) <= 1
            /\ \A i \in 1..Len(glog[c]) :
                /\ glog[c][i].step = "getUpstream" =>
                        IF loc[c].baseRemote = Null
                        THEN FetchesOf(c) = {} /\ pc[c] # "fetch"
                        ELSE /\ FollowedBy(c, i, "fetch")
                             /\ FetchesOf(c) \subseteq {i + 1}
                /\ glog[c][i].cmd.op = "fetch" =>
                        /\ glog[c][i].cmd.remote = loc[c].baseRemote
                        /\ loc[c].baseRemote = TableRemote(c)
                        /\ ~Succeeded(glog[c][i])
                             => AbortedAt(c, i) /\ result[c].error = GitCommandFailed
                /\ glog[c][i].step \in ResolutionSteps =>
                        /\ FetchesOf(c) = {} <=> loc[c].baseRemote = Null
                        /\ \A j \in FetchesOf(c) : j < i /\ Succeeded(glog[c][j])

\* origin is a fork of upstream: upstream was fetched, the fetch failed and
\* the call threw
C26_Witness ==
    \E c \in Calls :
        /\ IsCreate(c) /\ Thrown(c) /\ loc[c].baseRemote = "upstream"
        /\ \E e \in Log(c) : e.cmd.op = "fetch" /\ ~Succeeded(e)
        /\ result[c].error = GitCommandFailed

\* no remote is configured: the call returned without a fetch
C26_WitnessNoRemote ==
    \E c \in Calls :
        /\ IsCreate(c) /\ Returned(c) /\ loc[c].baseRemote = Null
        /\ FetchesOf(c) = {}
\* the best-effort steps of createWorktree
BestEffortSteps ==
    {"cleanup", "add", "getOrigin", "getUpstream", "symbolicRef", "candidate"}

\* the call went on after its i-th git invocation
Continued(c, i) == i < Len(glog[c]) \/ ~Settled(pc[c])

\* C27: a failure of a best-effort step of createWorktree (the lookup of
\* origin's or upstream's URL, symbolic-ref, the probes of main and master
\* under the remote, the cleanup of a stale worktree, the staging for the
\* initial commit) does not abort the call: the call goes on to the next
\* step with the fallback (no URL, the next candidate, the current branch).
C27_BestEffortNeverAborts ==
    \A c \in Calls :
        IsCreate(c) =>
            \A i \in 1..Len(glog[c]) :
                LET e == glog[c][i]
                IN  (e.step \in BestEffortSteps /\ ~Succeeded(e)) =>
                        /\ Continued(c, i)
                        /\ e.step = "cleanup" => FollowedBy(c, i, "hasCommits")
                        /\ e.step = "add" => FollowedBy(c, i, "commit")
                        /\ e.step = "getOrigin"
                                => FollowedBy(c, i, "getUpstream") /\ loc[c].originUrl = NoUrl
                        /\ e.step = "getUpstream" => loc[c].upstreamUrl = NoUrl
                        /\ e.step = "symbolicRef"
                                => /\ FollowedBy(c, i, "candidate")
                                   /\ i < Len(glog[c]) => glog[c][i + 1].cmd.branch = "main"
                        /\ (e.step = "candidate" /\ e.cmd.branch = "main")
                                => /\ FollowedBy(c, i, "candidate")
                                   /\ i < Len(glog[c]) => glog[c][i + 1].cmd.branch = "master"
                        /\ (e.step = "candidate" /\ e.cmd.branch = "master")
                                => FollowedBy(c, i, "abbrevRef")

\* the cleanup failed with another error than "is not a working tree", the
\* lookup of upstream's URL failed, and the call returned
C27_Witness ==
    \E c \in Calls :
        /\ IsCreate(c) /\ Returned(c)
        /\ \E e \in Log(c) : e.step = "cleanup" /\ e.stderr = "timeout"
        /\ \E e \in Log(c) : e.step = "getUpstream" /\ ~Succeeded(e)
\* ------------------------------------------------------------ no retries
\* the steps whose failure is caught nowhere in their operation
UncaughtSteps == FatalSteps \cup {"remove", "showCurrent"}

\* how far listWorktreesDetailed has got: the iteration, then the await
DetailedRank ==
    CASE dpc = "idle" -> 0
      [] dpc = "list" -> 1
      [] dpc = "stat" -> 2
      [] dpc = "status" -> 3
      [] dpc = "shortstat" -> 4
      [] dpc = "log" -> 5
      [] OTHER -> 6

DetailedPosition == 6 * dloc.i + DetailedRank

\* no await site of call c has issued the same command twice, and none but
\* the candidate probe has issued two commands
NoStepTwice(c) ==
    \A i, j \in 1..Len(glog[c]) :
        i < j =>
            /\ glog[c][i].step = glog[c][j].step => glog[c][i].step = "candidate"
            /\ glog[c][i].step # glog[c][j].step \/ glog[c][i].cmd # glog[c][j].cmd

\* a timeout at a step whose failure is not caught ended call c with the
\* error
TimeoutIsFatal(c) ==
    \A i \in 1..Len(glog[c]) :
        (glog[c][i].stderr = "timeout" /\ glog[c][i].step \in UncaughtSteps)
            => i = Len(glog[c]) /\ Thrown(c) /\ result[c].error = GitCommandFailed

MarkedBestEffort == BestEffortSteps

C28_SameArgvAgain ==
    \E c \in Calls :
        \E i, j \in 1..Len(glog[c]) :
            /\ i < j /\ glog[c][i].step = "hasCommits" /\ glog[c][i].stderr = OtherError
            /\ glog[c][j].step = "revParseBase"
            /\ Argv(glog[c][j].cmd) = Argv(glog[c][i].cmd)

\* rev-parse --is-inside-work-tree timed out and the call returned
C28_TimeoutSurvived ==
    \E c \in Calls :
        /\ Returned(c)
        /\ \E e \in Log(c) : e.step = "probe" /\ e.stderr = "timeout"
\* --------------------------------------------------- isForkOfUpstream
\* the URL is written git@host:owner/repo(.git)? or
\* https://host/owner/repo(.git)?
HasClaimedForm(d) == d.form \in {"ssh", "https"}

\* C29: isForkOfUpstream(originUrl, upstreamUrl) is true exactly when both
\* URLs have the form git@host:owner/repo(.git)? or
\* https://host/owner/repo(.git)?, for any host, the repository names are
\* equal and the owners differ; the parse of a URL returns null exactly
\* when the URL has neither form.
C29_ForkAnyHost ==
    forkResult.done =>
        /\ forkResult.isFork <=>
                /\ HasClaimedForm(remoteUrls[1]) /\ HasClaimedForm(remoteUrls[2])
                /\ remoteUrls[1].repo = remoteUrls[2].repo
                /\ remoteUrls[1].owner # remoteUrls[2].owner
        /\ forkResult.origin = NoMatch <=> ~HasClaimedForm(remoteUrls[1])
        /\ forkResult.upstream = NoMatch <=> ~HasClaimedForm(remoteUrls[2])

\* what the code does: the same, with the host github.com only and with
\* http:// accepted like https://
HasAcceptedForm(d) == d.form \in {"ssh", "https", "http"} /\ d.host = "github.com"

C29_ForkOnGitHub ==
    forkResult.done =>
        /\ forkResult.isFork <=>
                /\ HasAcceptedForm(remoteUrls[1]) /\ HasAcceptedForm(remoteUrls[2])
                /\ remoteUrls[1].repo = remoteUrls[2].repo
                /\ remoteUrls[1].owner # remoteUrls[2].owner
        /\ forkResult.origin = NoMatch <=> ~HasAcceptedForm(remoteUrls[1])
        /\ forkResult.upstream = NoMatch <=> ~HasAcceptedForm(remoteUrls[2])
        /\ forkResult.origin # NoMatch =>
                /\ forkResult.origin.owner = <<remoteUrls[1].owner>>
                /\ forkResult.origin.repo = <<remoteUrls[1].repo>>
\* -------------------------------------------------- detached worktrees
\* C30: every entry listWorktrees returns with detached = true has
\* branch = null, whatever the output of git worktree list --porcelain,
\* records with both a branch line and a detached line included.
C30_DetachedHasNoBranch ==
    parsed.done =>
        \A k \in 1..Len(parsed.out) :
            parsed.out[k].detached => parsed.out[k].branch = NoBranch

\* ------------------------------------- claims of the ignore filter (C31)
\* the filenames of the runs that the filter drops according to the sentence:
\* .git/ or node_modules/ at the start or as a path segment, the whole name
\* .DS_Store or thumbs.db, the endings .swp, .swo and ~, a basename that
\* starts with .# or that starts and ends with #
DroppedAsStated ==
    {FileGitIndex, FileNestedGit, FileNestedModules, FileDsStore, FileThumbs,
     FileSwap, FileSwo, FileBackup, FileLock, FileAutosave}

\* the filenames of the runs whose last path segment is .DS_Store or
\* thumbs.db, below a directory
DroppedBelowDirectory == {FileNestedDsStore}

\* the step left the record and the timer of the session as they were
Dropped(s) == UNCHANGED <<watchedSessions, refreshDebounceTimers>>

\* the step marked the session pending and started its timer of ms
Scheduled(s, ms) ==
    /\ Watched(s)'
    /\ watchedSessions'[s].pendingRefresh
    /\ watchedSessions'[s].lastModified = now
    /\ TimerPending(s)'
    /\ refreshDebounceTimers'[s] = now + ms

\* the filter drops the filenames of the set dropped and no other, and it is
\* applied to the worktree events with a filename only
FilterDrops(dropped) ==
    \A s \in Sessions :
        /\ (StepOf("worktree event", s) /\ Watched(s))
            => IF input'.filename \in dropped
               THEN Dropped(s) /\ emitted' = <<>>
               ELSE Scheduled(s, WORKTREE_DEBOUNCE_MS)
        /\ (StepOf("git event", s) /\ Watched(s))
            => Scheduled(s, GIT_DEBOUNCE_MS)

C31_WitnessNoFilename ==
    /\ input = EventInput("worktree event", "s1", NoFilename)
    /\ Watched("s1")
    /\ watchedSessions["s1"].pendingRefresh
    /\ TimerPending("s1")

\* the step is a call or callback of the watcher
WatcherStep ==
    input'.op \in {"startWatching", "startWatching watched", "startWatching failed",
                   "stopWatching", "stopWatching unwatched", "stopAll",
                   "worktree event", "git event", "timer", "time"}

StartedBy == {s \in Sessions : Starts(s)}
StoppedBy ==
    {s \in Sessions :
        \/ StepOf("stopWatching", s)
        \/ StepOf("startWatching failed", s)
        \/ input'.op = "stopAll"}

\* an event of the session was accepted since its start and not signalled yet
AwaitsSignal(s) == hist[s].events > 0 /\ hist[s].signals = 0

\* C33: getStats().totalWatched is the number of sessions that were started
\* and not stopped since (it follows the starts and stops step by step, and a
\* session is counted exactly while its worktree watch is open);
\* sessionsNeedingRefresh is the number of watched sessions with
\* pendingRefresh true, those with an accepted event not yet signalled, and
\* is at most totalWatched; a watched session has pendingRefresh true exactly
\* when a timer is outstanding for it; an unwatched session has no timer.
C33_StatsAndTimers ==
    /\ [](/\ getStats(Watcher).totalWatched =
                Cardinality({s \in Sessions :
                    \E h \in Handles : /\ h.sessionId = s
                                        /\ h.target = WorktreeTarget
                                        /\ handles[h] > 0})
           /\ getStats(Watcher).sessionsNeedingRefresh =
                Cardinality({s \in Sessions : Watched(s) /\ AwaitsSignal(s)})
           /\ getStats(Watcher).sessionsNeedingRefresh
                <= getStats(Watcher).totalWatched
           /\ \A s \in Sessions :
                /\ Watched(s) => (watchedSessions[s].pendingRefresh <=> TimerPending(s))
                /\ ~Watched(s) => ~TimerPending(s))
    /\ [][getStats(Watcher)'.totalWatched =
            Cardinality(({s \in Sessions : Watched(s)} \cup StartedBy) \ StoppedBy)]_vars

\* both sessions are watched and one of them needs a refresh
C33_Witness ==
    /\ getStats(Watcher).totalWatched = 2
    /\ getStats(Watcher).sessionsNeedingRefresh = 1
    /\ \E s \in Sessions : Watched(s) /\ hist[s].signals = 1 /\ ~TimerPending(s)

\* --------------------------------------- claims of resolveGitDir (C34)
\* the path a .git file of the runs names after "gitdir:", none when its
\* text is not "gitdir:" in either case, blanks, one line of path, blanks:
\* the path part when only blanks follow it, the second line when the first
\* ends after the key
NamedPath(e) ==
    IF e.lead \notin {<<>>, <<SP>>} \/ e.key \notin {"gitdir:", "GITDIR:"} THEN <<>>
    ELSE IF e.path # <<>>
    THEN (IF e.trail \in {<<>>, <<NL>>, <<SP, NL>>} THEN e.path ELSE <<>>)
    ELSE (IF e.trail = <<NL, "x">> THEN <<"x">> ELSE <<>>)

\* the relative paths of the runs, resolved by hand against each worktree
ResolvedByHand(worktreePath, path) ==
    CASE path = PathUpward /\ worktreePath = WorktreeOne -> PathAbsolute
      [] path = PathUpward /\ worktreePath = WorktreeNested ->
            <<"/", "projects", "/", "repo", "/", ".git", "/", "worktrees", "/", "w">>
      [] path \in {PathBelow, PathDotted} /\ worktreePath = WorktreeOne ->
            <<"/", "w1", "/", "real.git">>
      [] path \in {PathBelow, PathDotted} /\ worktreePath = WorktreeNested ->
            <<"/", "projects", "/", "w2", "/", "real.git">>
      [] path = <<"x">> /\ worktreePath = WorktreeOne -> <<"/", "w1", "/", "x">>
      [] path = <<"x">> /\ worktreePath = WorktreeNested ->
            <<"/", "projects", "/", "w2", "/", "x">>

\* C34: resolveGitDir(worktreePath) returns <worktreePath>/.git when that
\* entry is a directory; when it is a readable file whose text matches
\* "gitdir: <path>" in either case it returns the path unchanged if it is
\* absolute and resolved against the directory of the .git file if it is
\* relative; in every other case (absent, unreadable, not matching) it
\* returns null; it never throws.
C34_ResolveGitDir ==
    gitDir.done =>
        LET e == dotGitEntry
        IN  /\ ~gitDir.threw
            /\ IF e.kind = "directory" /\ ~e.statFails
               THEN /\ ~gitDir.isNull
                    /\ gitDir.path = e.worktreePath \o <<"/", ".git">>
               ELSE IF e.kind = "file" /\ ~e.readFails /\ NamedPath(e) # <<>>
               THEN /\ ~gitDir.isNull
                    /\ gitDir.path = IF Head(NamedPath(e)) = "/" THEN NamedPath(e)
                                     ELSE ResolvedByHand(e.worktreePath, NamedPath(e))
               ELSE gitDir.isNull

\* a .git file that spells the key in capitals and names a path above the
\* worktree was resolved
C34_Witness ==
    /\ gitDir.done /\ ~gitDir.isNull
    /\ dotGitEntry.kind = "file"
    /\ dotGitEntry.key = "GITDIR:"
    /\ dotGitEntry.path = PathUpward
    /\ dotGitEntry.worktreePath = WorktreeNested

\* null was returned for a .git file with a second line
C34_WitnessNull ==
    /\ gitDir.done /\ gitDir.isNull
    /\ dotGitEntry.kind = "file" /\ ~dotGitEntry.readFails
    /\ dotGitEntry.key = "gitdir:" /\ dotGitEntry.path = PathAbsolute
    /\ dotGitEntry.trail = <<NL, "x">>

\* ------------------------------------------- claims of the locks (C35)
\* call d asks for a lock that is unrelated to the one call c holds: another
\* name of the same project, or a removeWorktreePath
Unrelated(c, d) ==
    /\ c # d
    /\ IsCreate(c) /\ InFlight(c)
    /\ pc[d] = "waiting"
    /\ \/ IsRemove(d)
       \/ IsCreate(d) /\ args[d].projectPath = args[c].projectPath
                      /\ args[d].name # args[c].name

\* no third call is ahead of d for the lock d asks for
FirstForItsKey(c, d) ==
    \A e \in Calls \ {c, d} :
        (e < d /\ pc[e] # "idle" /\ ~Settled(pc[e]))
        => ~(SameCreate(e, d) \/ SameRemove(e, d))

\* C35: locks of unrelated keys do not block each other: while a
\* createWorktree for (p, n1) holds its lock, a createWorktree for (p, n2)
\* with n2 # n1, or a removeWorktreePath, that asks for its lock can start
\* its body at once; it does not wait for the holder.
C35_UnrelatedLocks ==
    \A c, d \in Calls :
        (Unrelated(c, d) /\ FirstForItsKey(c, d)) => ENABLED Enter(d)

\* two createWorktree calls for different names of one project are both
\* past their lock, the later one while the earlier one awaits git
C35_Witness ==
    \E c, d \in Calls :
        /\ c < d
        /\ IsCreate(c) /\ IsCreate(d)
        /\ args[c].projectPath = args[d].projectPath
        /\ args[c].name # args[d].name
        /\ InFlight(c) /\ pc[c] \notin {"mkdir"}
        /\ InFlight(d)

\* a removeWorktreePath runs while a createWorktree holds its lock
C35_WitnessRemove ==
    \E c, d \in Calls :
        /\ c < d
        /\ IsCreate(c) /\ IsRemove(d)
        /\ InFlight(c) /\ InFlight(d)

\* ------------------------------ claims of concurrent creations (C36)
\* two createWorktree calls of one project with different names that create
\* the same branch
SameBranch(c, d) ==
    /\ c # d /\ IsCreate(c) /\ IsCreate(d)
    /\ args[c].projectPath = args[d].projectPath
    /\ args[c].name # args[d].name
    /\ BranchArg(args[c]) = BranchArg(args[d])

\* the call was stopped by the local branch it was to create: its last git
\* invocation is the branch check that found the branch, or the git worktree
\* add -b that git refused, and the branch exists
StoppedByBranch(d) ==
    /\ Thrown(d)
    /\ glog[d] # <<>>
    /\ LET e == glog[d][Len(glog[d])]
       IN  /\ e.stderr # "timeout"
           /\ \/ e.step = "branchCheck" /\ e.exitCode = 0
              \/ e.step = "worktreeAdd" /\ e.exitCode # 0
    /\ HeadsOf(git, loc[d].branchName) # NoCommit

\* C36: two createWorktree calls with different names but the same branch
\* name, running concurrently under different locks, never both return
\* successfully, and the call that fails because the local branch already
\* exists fails with "Branch already exists", not with a failure of git
\* worktree add.
C36_SameBranchRejected ==
    \A c, d \in Calls :
        SameBranch(c, d)
        => /\ ~(Returned(c) /\ Returned(d))
           /\ StoppedByBranch(d) => result[d].error = BranchAlreadyExists

\* both calls passed the branch check before either ran git worktree add;
\* one has returned, the other was refused by git worktree add
C36_Witness ==
    \E c, d \in Calls :
        /\ SameBranch(c, d)
        /\ Returned(c)
        /\ StoppedByBranch(d)
        /\ glog[d][Len(glog[d])].step = "worktreeAdd"
        /\ result[d].error = GitCommandFailed

\* the first half alone: the two calls never both return
C36_NeverBoth ==
    \A c, d \in Calls : SameBranch(c, d) => ~(Returned(c) /\ Returned(d))

\* ------------------------------------- claims of the delivery (C37)
\* how many times the handler of the subscriber at position u was called by
\* these emissions: emit calls the handlers in the order they subscribed and
\* stops at the one that throws
Deliveries(emits, u) ==
    Cardinality({i \in 1..Len(emits) : emits[i].thrower = 0 \/ u <= emits[i].thrower})

\* C37: each elapse of the debounce timer of a session delivers
\* needs-refresh to every subscriber at most once and leaves the session Idle
\* (pendingRefresh false, no timer outstanding), also when the handler of a
\* subscriber throws during the delivery.
C37_DeliveredAtMostOnce ==
    [][\A s \in Sessions :
        Signals(s)
        => /\ \A u \in 1..Len(Subscribers) : Deliveries(emitted', u) <= 1
           /\ Watched(s)'
           /\ ~watchedSessions'[s].pendingRefresh
           /\ ~TimerPending(s)']_vars

\* the handler of the second subscriber threw: the catch block emitted again
\* and the handler of the first subscriber has run twice for one elapse
C37_Witness ==
    \E s \in Sessions :
        /\ input = Input("timer", s)
        /\ Len(emitted) = 2
        /\ emitted[1].thrower = 2
        /\ Deliveries(emitted, 1) = 2
        /\ Watched(s) /\ ~watchedSessions[s].pendingRefresh /\ ~TimerPending(s)

\* the second half alone: the callback leaves the session Idle
C37_LeftIdle ==
    [][\A s \in Sessions :
        Signals(s)
        => (Watched(s)' /\ ~watchedSessions'[s].pendingRefresh /\ ~TimerPending(s)')]_vars

\* ------------------------------------- claims of the base commit (C38)
\* the commit of the branch a returned call reports as baseBranch: of the
\* remote-tracking branch when the call chose a remote, of the local branch
\* otherwise
CommitOfBaseBranch(c) ==
    IF loc[c].baseRemote # Null
    THEN RemoteRefOf(git, loc[c].baseRemote, result[c].value.baseBranch)
    ELSE HeadsOf(git, result[c].value.baseBranch)

\* C38: the baseCommit a successful createWorktree returns is the commit of
\* the returned baseBranch (the remote-tracking branch <remote>/<baseBranch>
\* when a remote was chosen, the local branch otherwise); when no remote is
\* chosen, baseCommit is never the commit of another branch than baseBranch.
C38_CommitOfBaseBranch ==
    \A c \in Calls :
        (IsCreate(c) /\ Returned(c))
        => result[c].value.baseCommit = CommitOfBaseBranch(c)

\* no remote, baseBranch "dev" asked for and not present: the call returned
\* baseBranch "dev" with the commit HEAD is at
C38_Witness ==
    \E c \in Calls :
        /\ IsCreate(c) /\ Returned(c)
        /\ loc[c].baseRemote = Null
        /\ args[c].baseBranch = "dev"
        /\ result[c].value.baseBranch = "dev"
        /\ HeadsOf(git, "dev") = NoCommit
        /\ result[c].value.baseCommit = HeadCommit(git)
        /\ result[c].value.baseCommit # NoCommit

\* the part that holds: with a remote chosen, baseCommit is the commit of
\* <remote>/<baseBranch>
C38_RemoteChosen ==
    \A c \in Calls :
        (IsCreate(c) /\ Returned(c) /\ loc[c].baseRemote # Null)
        => result[c].value.baseCommit = CommitOfBaseBranch(c)

\* ------------------------------------------ claims of liveness (C39)
\* an accepted event of the session waits for its signal
AwaitingRefresh(s) == Watched(s) /\ watchedSessions[s].pendingRefresh

\* the last step signalled the session, or stopped or restarted it
SignalledOrStopped(s) ==
    \/ input = Input("timer", s) /\ emitted # <<>>
    \/ ~Watched(s)
    \/ input = Input("startWatching watched", s)

\* the last step accepted an event of the session
EventAccepted(s) ==
    /\ input.sessionId = s
    /\ input.op \in {"worktree event", "git event"}
    /\ AwaitingRefresh(s)
    /\ refreshDebounceTimers[s] \in {now + WORKTREE_DEBOUNCE_MS, now + GIT_DEBOUNCE_MS}

\* C39: if a session remains watched, every accepted event of it is
\* eventually followed by a needs-refresh for it, timers that are due firing
\* and time going on, also when further accepted events keep arriving at
\* intervals shorter than the debounce interval.
C39_EventuallySignalled ==
    \A s \in Sessions : AwaitingRefresh(s) ~> SignalledOrStopped(s)

\* a third event of a burst was accepted 50 ms after the one before, on the
\* running clock
C39_Witness ==
    /\ EventAccepted("s1")
    /\ hist["s1"].events = MaxBurst
    /\ now = MaxTime
    /\ input.op = "worktree event"

\* what holds: an accepted event is eventually followed by a needs-refresh
\* when the events of the session come to an end
C39_WhenEventsEnd ==
    \A s \in Sessions :
        (<>[]~EventAccepted(s)) => (AwaitingRefresh(s) ~> SignalledOrStopped(s))

\* --------------------------------------- claims of startWatching (C40)
\* the handles of the session that are open
OpenHandles(s) == {h \in Handles : h.sessionId = s /\ handles[h] > 0}

\* C40: startWatching(s, p) never throws (every step has an outcome); after
\* it returns s is watched exactly when a watch on p could be opened,
\* recursively or, recursive mode rejected, non-recursively; neither a gitdir
\* that cannot be resolved nor metadata watches that cannot be opened prevent
\* s from being watched; when no watch on p can be opened s is left unwatched
\* with no open handle and no timer, also if s was watched before.
C40_StartWatching ==
    [][\A s \in Sessions :
        /\ Starts(s)
            => /\ Watched(s)'
               /\ watchedSessions'[s].watcher \in OpenHandles(s)'
               /\ OpenHandles(s)' = OwnedBy(watchedSessions'[s])
               /\ ~watchedSessions'[s].pendingRefresh
               /\ ~TimerPending(s)'
        /\ StepOf("startWatching failed", s)
            => /\ ~Watched(s)'
               /\ OpenHandles(s)' = {}
               /\ ~TimerPending(s)']_vars

\* the session is watched at /w1 with its worktree watch alone: no metadata
\* watch opened
C40_Witness ==
    /\ input.op \in {"startWatching", "startWatching watched"}
    /\ Watched("s1")
    /\ watchedSessions["s1"].worktreePath = "/w1"
    /\ watchedSessions["s1"].gitWatchers = <<>>
    /\ Cardinality(OpenHandles("s1")) = 1

\* startWatching could open no watch for a session that was watched, with a
\* timer pending: nothing of it is left
C40_WitnessFailed ==
    /\ input = Input("startWatching failed", "s1")
    /\ hist["s1"].cancelled > now
    /\ ~Watched("s1") /\ OpenHandles("s1") = {} /\ ~TimerPending("s1")
====
